---- MODULE Spec2Model ----
(***************************************************************************)
(* Model of the network capture engine of mcp-selenium:                    *)
(* NetworkLoggerCDP (src/src/network-logger-cdp.ts, the class at lines     *)
(* 607-1126), the process-wide accessor getNetworkLogger, and the event    *)
(* loop that runs its asynchronous methods.                                *)
(*                                                                         *)
(* JavaScript runs one callback at a time: an async method runs without    *)
(* interruption from the completion of one awaited I/O operation to the    *)
(* start of the next.  Each action below is one such run.  A call of       *)
(* captureLogs is a task; the timer may start a new task while an earlier  *)
(* one is still waiting for I/O, and stopCapture starts one more (the     *)
(* final drain).                                                           *)
(*                                                                         *)
(* Eight specifications share the actions.  Spec allows every API call at  *)
(* any time; SessionSpec follows one capture session and PollSpec a        *)
(* capture that keeps polling, each with fewer calls and more log entries; *)
(* BrowserSpec drives the logger through start_browser and close_session   *)
(* (src/src/actions/browser.ts); SerialSpec is a capture whose ticks do    *)
(* not overlap; ToolSpec is one browser session with the query tools       *)
(* get_page_requests and search_network_logs; MatchSpec applies the line   *)
(* matcher of searchInFiles to texts drawn from a bounded set; LiveSpec is *)
(* a capture that is never stopped, with timers that keep firing and I/O   *)
(* that completes.                                                         *)
(***************************************************************************)
EXTENDS Integers, Sequences, FiniteSets, TLC

\* ------------------------------------------------------------------ bounds
MaxEvents == 2      \* entries the browser logs, under Spec
MaxSessionEvents == 3   \* entries the browser logs, under SessionSpec
MaxPollEvents == 4      \* entries the browser logs, under PollSpec
MaxBrowserEvents == 2   \* entries the browser logs, under BrowserSpec
MaxStarts == 2      \* calls of startCapture
MaxFetchErrors == 1     \* fetches of the performance log that fail
MaxToolEvents == 2      \* entries the browser logs, under ToolSpec
MaxSerialEvents == 5    \* entries the browser logs, under SerialSpec
MaxRmErrors == 1        \* calls of fs.rm that fail
MaxReadErrors == 1      \* reads of a search that fail although the file exists
MaxLiveEvents == 3      \* entries the browser logs, under LiveSpec
MaxLines == 3           \* lines of a text that is scanned, under MatchSpec

\* ---------------------------------------------------------------- constants
NoNum == 0 - 1      \* an undefined number (responseStatus, size)
NoStr == "<undefined>"
NoPath == [dir |-> "", kind |-> "none", id |-> 0]
NoName == [kind |-> "", id |-> 0]

Keys == {"17.1", "99.9"}                \* correlation keys (params.requestId)
TsDir == ".network-logs/<Date.now()>"   \* the directory the constructor names
CustomDir == "/custom/log/dir"          \* a directory given to setLogDirectory
DefaultContextLines == 5                \* contextLines of search_network_logs
Dirs == {TsDir, CustomDir}

\* The n-th event of a kind carries the n-th payload of these pools.
UrlPool == <<"https://example.com/", "https://example.com/api", "https://cdn.test/app.js">>
MethodPool == <<"GET", "POST">>
PostDataPool == <<"", "{\"test\": \"data\"}">>
StatusPool == <<200, 404, 301>>
MimePool == <<"text/html", "application/json">>
SizePool == <<512, 0, 64>>

Pick(pool, n) == pool[((n - 1) % Len(pool)) + 1]

Kinds == {"malformed", "other", "req", "resp", "fin"}

\* A performance-log entry.  "malformed" is an entry whose message is not
\* valid JSON; "other" is a well-formed entry of another method.
Entry(kind, key, n) ==
    [kind |-> kind, key |-> key, n |-> n,
     url |-> Pick(UrlPool, n), method |-> Pick(MethodPool, n),
     postData |-> Pick(PostDataPool, n),
     status |-> Pick(StatusPool, n), mimeType |-> Pick(MimePool, n),
     size |-> Pick(SizePool, n)]

\* What Network.getResponseBody answers: it fails, or returns a body.
BodyOutcomes == {"fail", "{\"ok\": true}"}

\* -------------------------------------------------------------------- state
VARIABLES
    driver,          \* this.driver: "unset", "alive" once a browser is bound, "quit" after driver.quit()
    logDir,          \* this.logDir
    requests,        \* this.requests: the record objects, in push order
    requestMap,      \* this.requestMap: key -> [req: index in requests, filepath]
    captureInterval, \* this.captureInterval: a timer handle, 0 = undefined
    isCapturing,     \* this.isCapturing
    timers,          \* the interval timers of the event loop that are not cleared
    starts,          \* setInterval calls so far (the next handle is starts + 1)
    nextId,          \* uniqueIds generated so far
    dirs,            \* directories that exist
    files,           \* the files that exist: path -> content
    emitted,         \* entries of the performance log the loop has met so far, per kind
    tasks,           \* the captureLogs calls: task -> its position and locals
    call,            \* the API call that awaits I/O, if any
    raised,          \* the error the last API call threw, "" if none
    fetchErrors,     \* calls of logs().get() that have failed
    sessions,        \* state.drivers, state.sessionOptions: the browser sessions, in launch order
    rmErrors,        \* calls of fs.rm that have failed
    search,          \* the searchInFiles call that awaits a file read, if any
    reply,           \* what the last call of a query tool returned
    probe,           \* a text, a pattern and the result of scanning the one for the other
    cdpLogger        \* the module's cdpLogger: 0 = null, else the number of the instance

vars == <<driver, logDir, requests, requestMap, captureInterval, isCapturing,
          timers, starts, nextId, dirs, files, emitted, tasks, call, raised,
          fetchErrors, sessions, rmErrors, search, reply, probe, cdpLogger>>

\* The state of the query tools, and of the faults cleanupLogs meets
toolVars == <<rmErrors, search, reply, probe, cdpLogger>>

\* The captureLogs calls that may be pending at once: the one stopCapture
\* makes, and those of two timer ticks (the interval callback does not wait
\* for the previous call).
DrainTask == "drain"
TickTasks == {"tick1", "tick2"}
Tasks == {DrainTask} \cup TickTasks

NoRec == [uniqueId |-> 0]
NoBuf == [t |-> "none"]
IdleTask == [pc |-> "idle", rest |-> <<>>, seen |-> <<>>, rec |-> 0,
             cur |-> NoRec, path |-> NoPath, rpath |-> NoPath, spath |-> NoPath,
             buf |-> NoBuf, body |-> NoStr, read |-> "none"]
NoCall == [op |-> "none", cleanup |-> FALSE]

NoSearch == [pc |-> "idle"]
NoReply == [kind |-> "none"]
NoProbe == [pc |-> "none"]

\* ------------------------------------------------------------- file system
Path(dir, kind, id) == [dir |-> dir, kind |-> kind, id |-> id]
IndexPath(dir) == Path(dir, "index.json", 0)

Exists(fs, p) == p \in DOMAIN fs

\* fs.writeFile: fails (ENOENT) when the directory does not exist.
CanWrite(ds, p) == p.dir \in ds

PutFile(fs, p, content) ==
    [q \in (DOMAIN fs) \cup {p} |-> IF q = p THEN content ELSE fs[q]]

\* fs.rm(dir, {recursive, force})
RemoveDir(fs, dir) ==
    [q \in {p \in DOMAIN fs : p.dir # dir} |-> fs[q]]

EmptyIndex == [requests |-> <<>>]

\* ----------------------------------------------------------------- records
\* captureLogs, Network.requestWillBeSent: the record object
NewRequest(e, uid) ==
    [url |-> e.url, method |-> e.method, requestBody |-> e.postData,
     requestId |-> e.key, uniqueId |-> uid, requestFilepath |-> NoPath,
     responseStatus |-> NoNum, responseHeaders |-> NoStr, type |-> NoStr,
     responseBody |-> NoStr, size |-> NoNum, responseFilepath |-> NoPath,
     requestBodyFilepath |-> NoName, responseBodyFilepath |-> NoName,
     timestamp |-> e.n]

HeadersOf(e) == "content-type: " \o e.mimeType

Truthy(s) == s # NoStr /\ s # ""

\* `${kind}_${uniqueId}_body.raw`
BodyName(kind, uid) == [kind |-> kind \o "_body.raw", id |-> uid]

\* { ...request } with the bodies replaced by references, as written to the
\* request file by the response and loading-finished handlers
RequestToUpdate(r) ==
    [r EXCEPT !.requestBody = IF Truthy(r.requestBody) THEN "[See: request body]" ELSE r.requestBody,
              !.responseBody = IF Truthy(r.responseBody) THEN "[See: response body]" ELSE r.responseBody]

\* updateIndex: the entry built from the record
IndexEntry(r, requestFilepath, responseFilepath) ==
    [uniqueId |-> r.uniqueId, timestamp |-> r.timestamp, url |-> r.url,
     method |-> r.method, status |-> r.responseStatus, type |-> r.type,
     size |-> r.size,
     requestFilepath |-> requestFilepath, responseFilepath |-> responseFilepath,
     requestBodyFilepath |-> r.requestBodyFilepath,
     responseBodyFilepath |-> r.responseBodyFilepath]

\* findIndex: the first position whose uniqueId is uid, 0 if none
FindIndex(seq, uid) ==
    LET hits == {k \in 1..Len(seq) : seq[k].uniqueId = uid}
    IN IF hits = {} THEN 0 ELSE CHOOSE k \in hits : \A m \in hits : k <= m

\* Fault: an update that always appends.
UpsertAppending(index, entry) == [index EXCEPT !.requests = Append(@, entry)]

\* Fault: an update that takes the old entry out and appends the new one.
UpsertMovingToEnd(index, entry) ==
    [index EXCEPT !.requests =
        Append(SelectSeq(@, LAMBDA e : e.uniqueId # entry.uniqueId), entry)]

\* updateIndex: merge into the existing entry, or append
Upsert(index, entry) ==
    LET k == FindIndex(index.requests, entry.uniqueId)
    IN IF k > 0
       THEN [index EXCEPT !.requests[k] = entry]
       ELSE [index EXCEPT !.requests = Append(@, entry)]

\* ------------------------------------------------- captureLogs, entry loop
\* The state a captureLogs call works on: the logger's collections, the files,
\* and the call's own position and locals.
Store(t) == [requests |-> requests, requestMap |-> requestMap, files |-> files,
             nextId |-> nextId, task |-> tasks[t]]

\* this.requestMap.get(requestId): the registered data, or undefined
NoData == [req |-> 0, filepath |-> NoPath]

\* Fault: a lookup that falls back to some registered request when the key
\* is unknown.
LookupAnyRequest(map, key) ==
    IF key \in DOMAIN map THEN map[key]
    ELSE IF DOMAIN map # {} THEN map[CHOOSE k \in DOMAIN map : TRUE]
    ELSE NoData

Lookup(map, key) == IF key \in DOMAIN map THEN map[key] ELSE NoData

\* An entry whose handling reaches an await.  Every other entry is handled
\* without one and changes nothing: JSON.parse throws (malformed), the method
\* is not a network event (other), requestMap.get finds nothing, or
\* encodedDataLength is falsy.
NeedsAwait(e, map) ==
    \/ e.kind = "req"
    \/ e.kind = "resp" /\ Lookup(map, e.key) # NoData
    \/ e.kind = "fin" /\ Lookup(map, e.key) # NoData /\ e.size # 0

NextAwait(batch, map) ==
    LET js == {j \in 1..Len(batch) : NeedsAwait(batch[j], map)}
    IN IF js = {} THEN Len(batch) + 1 ELSE CHOOSE j \in js : \A m \in js : j <= m

\* Fault: an identifier without its random part, within one millisecond.
GenerateClockId(n) == 1

\* generateUniqueId: Date.now() and nine random characters; a fresh value.
GenerateUniqueId(n) == n + 1

\* saveRequest, up to its first writeFile
SaveRequestBegin(st, dir) ==
    LET e == Head(st.task.rest)
        uid == GenerateUniqueId(st.nextId)
        r == NewRequest(e, uid)
        filepath == Path(dir, "request", uid)
        t0 == [st.task EXCEPT !.cur = r, !.rpath = filepath]
    IN [st EXCEPT
          !.nextId = uid,
          !.task = IF Truthy(r.requestBody)
                   THEN [t0 EXCEPT !.pc = "reqBodyWrite",
                                   !.path = Path(dir, "request_body", uid),
                                   !.buf = [t |-> "raw", of |-> r.requestBody]]
                   ELSE [t0 EXCEPT !.pc = "reqWrite", !.path = filepath, !.buf = r]]

\* Fault: a handler that keeps the fields of the first response.
ResponseBeginKeepingFirst(st) ==
    LET e == Head(st.task.rest)
        d == Lookup(st.requestMap, e.key)
        first == st.requests[d.req].responseStatus = NoNum
    IN [st EXCEPT
          !.requests[d.req] = [@ EXCEPT
               !.responseStatus = IF first THEN e.status ELSE @,
               !.responseHeaders = IF first THEN HeadersOf(e) ELSE @,
               !.type = IF first THEN e.mimeType ELSE @],
          !.task = [@ EXCEPT !.rec = d.req, !.rpath = d.filepath,
                             !.pc = "bodyFetch"]]

\* Network.responseReceived for a known key, up to the body fetch
ResponseBegin(st) ==
    LET e == Head(st.task.rest)
        d == Lookup(st.requestMap, e.key)
    IN [st EXCEPT
          !.requests[d.req] = [@ EXCEPT !.responseStatus = e.status,
                                        !.responseHeaders = HeadersOf(e),
                                        !.type = e.mimeType],
          !.task = [@ EXCEPT !.rec = d.req, !.rpath = d.filepath,
                             !.pc = "bodyFetch"]]

\* Network.loadingFinished for a known key with a truthy size, up to writeFile
FinishedBegin(st) ==
    LET e == Head(st.task.rest)
        d == Lookup(st.requestMap, e.key)
        r == [st.requests[d.req] EXCEPT !.size = e.size]
    IN [st EXCEPT
          !.requests[d.req] = r,
          !.task = [@ EXCEPT !.rec = d.req, !.rpath = d.filepath,
                             !.path = d.filepath, !.buf = RequestToUpdate(r),
                             !.pc = "finWrite"]]

\* Fault: a loop whose JSON.parse is outside the per-entry try, so that a
\* malformed entry ends the call.
BeginAborting(st, run, dir) ==
    LET bad == {k \in 1..Len(run) : run[k].kind = "malformed"}
        j == NextAwait(run, st.requestMap)
        st1 == [st EXCEPT !.task.rest = SubSeq(run, j, Len(run)),
                          !.task.seen = @ \o [k \in 1..Len(run) |->
                                              [kind |-> run[k].kind, key |-> run[k].key]]]
    IN IF bad # {} \/ j > Len(run)
       THEN [st1 EXCEPT !.task.pc = "done", !.task.rest = <<>>]
       ELSE CASE run[j].kind = "req" -> SaveRequestBegin(st1, dir)
              [] run[j].kind = "resp" -> ResponseBegin(st1)
              [] OTHER -> FinishedBegin(st1)

\* The for loop of captureLogs runs over the entries `run`, which it handles
\* without an await except for the last, and stops at that await (or at the
\* end of the batch).  The browser fixed the batch when the fetch answered;
\* the logger reads no entry before the loop reaches it, so the model draws
\* the entries run by run.  The task keeps the entry it is handling, and
\* `seen`, the kinds and keys of the entries its loop has met.
Begin(st, run, dir) ==
    LET j == NextAwait(run, st.requestMap)
        st1 == [st EXCEPT !.task.rest = SubSeq(run, j, Len(run)),
                          !.task.seen = @ \o [k \in 1..Len(run) |->
                                              [kind |-> run[k].kind, key |-> run[k].key]]]
    IN IF j > Len(run)
       THEN [st1 EXCEPT !.task.pc = "done"]
       ELSE CASE run[j].kind = "req" -> SaveRequestBegin(st1, dir)
              [] run[j].kind = "resp" -> ResponseBegin(st1)
              [] OTHER -> FinishedBegin(st1)

\* Fault: a registration that keeps the first record of a key.
PushRequestKeepingFirst(st) ==
    LET r == [st.task.cur EXCEPT !.requestFilepath = st.task.rpath]
        k == Len(st.requests) + 1
        map == st.requestMap
    IN [st EXCEPT
          !.requests = Append(@, r),
          !.requestMap = [q \in (DOMAIN map) \cup {r.requestId} |->
                            IF q \in DOMAIN map THEN map[q]
                            ELSE [req |-> k, filepath |-> st.task.rpath]],
          !.task = [@ EXCEPT !.cur = NoRec]]

\* After saveRequest returned: the record becomes visible.
PushRequest(st) ==
    LET r == [st.task.cur EXCEPT !.requestFilepath = st.task.rpath]
        k == Len(st.requests) + 1
        map == st.requestMap
    IN [st EXCEPT
          !.requests = Append(@, r),
          !.requestMap = [q \in (DOMAIN map) \cup {r.requestId} |->
                            IF q = r.requestId
                            THEN [req |-> k, filepath |-> st.task.rpath]
                            ELSE map[q]],
          !.task = [@ EXCEPT !.cur = NoRec]]

\* saveResponse, up to its first writeFile
SaveResponseBegin(st, dir) ==
    LET e == Head(st.task.rest)
        uid == st.requests[st.task.rec].uniqueId
        filepath == Path(dir, "response", uid)
        response == [t |-> "response", requestId |-> e.key, status |-> e.status,
                     headers |-> HeadersOf(e), mimeType |-> e.mimeType,
                     body |-> st.task.body, bodyFilepath |-> NoName, uniqueId |-> uid]
    IN [st EXCEPT
          !.task = IF Truthy(st.task.body)
                   THEN [@ EXCEPT !.pc = "respBodyWrite", !.spath = filepath,
                                  !.path = Path(dir, "response_body", uid),
                                  !.buf = [t |-> "raw", of |-> st.task.body]]
                   ELSE [@ EXCEPT !.pc = "respWrite", !.spath = filepath,
                                  !.path = filepath, !.buf = response]]

\* After saveResponse returned: the record gets its response file references
\* and the request file is rewritten.
AfterSaveResponse(st) ==
    LET r0 == st.requests[st.task.rec]
        r == [r0 EXCEPT !.responseFilepath = st.task.spath,
                        !.responseBodyFilepath =
                            IF Truthy(st.task.body)
                            THEN BodyName("response", r0.uniqueId) ELSE @]
    IN [st EXCEPT
          !.requests[st.task.rec] = r,
          !.task = [@ EXCEPT !.pc = "reqRewrite", !.path = st.task.rpath,
                             !.buf = RequestToUpdate(r)]]

\* What fs.readFile gives updateIndex: the content of the file, ENOENT when
\* there is none, or, while another call is writing the file (writeFile
\* truncates it first), a part of the new content that is not valid JSON.
ReadOutcomes(fs, p, writing) ==
    (IF Exists(fs, p) THEN {"ok"} ELSE {"ENOENT"})
    \cup (IF writing THEN {"torn"} ELSE {})

\* updateIndex: try { readFile; JSON.parse } catch { }: the parsed index, or
\* the empty one the function starts with
ParseIndex(fs, p, outcome) ==
    IF outcome = "ok" THEN fs[p] ELSE EmptyIndex

\* updateIndex after readFile: the merged index that is then written
UpdateIndex(st, index) ==
    LET r == st.requests[st.task.rec]
    IN [st EXCEPT !.task = [@ EXCEPT !.pc = "idxWrite",
          !.buf = Upsert(index, IndexEntry(r, st.task.rpath, st.task.spath))]]

WriteBuf(st) == [st EXCEPT !.files = PutFile(@, st.task.path, st.task.buf)]

\* --------------------------------------------------------------------- text
\* Texts are strings.  The texts of the model use the letters, digits and
\* punctuation of the files the logger writes; only the letters have a case.
UpperCase == "ABCDEFGHIJKLMNOPQRSTUVWXYZ"
LowerCase == "abcdefghijklmnopqrstuvwxyz"

CharAt(s, i) == SubSeq(s, i, i)

LowerOf ==
    [c \in {CharAt(UpperCase, k) : k \in 1..Len(UpperCase)} |->
        CharAt(LowerCase, CHOOSE k \in 1..Len(UpperCase) : CharAt(UpperCase, k) = c)]

LowerChar(c) == IF c \in DOMAIN LowerOf THEN LowerOf[c] ELSE c

UpperChar(c) ==
    IF \E k \in 1..Len(LowerCase) : CharAt(LowerCase, k) = c
    THEN CharAt(UpperCase, CHOOSE k \in 1..Len(LowerCase) : CharAt(LowerCase, k) = c)
    ELSE c

\* String.prototype.toUpperCase
RECURSIVE ToUpperCase(_)
ToUpperCase(s) ==
    IF Len(s) = 0 THEN s ELSE UpperChar(CharAt(s, 1)) \o ToUpperCase(Tail(s))

\* String.prototype.toLowerCase
RECURSIVE ToLowerCase(_)
ToLowerCase(s) ==
    IF Len(s) = 0 THEN s ELSE LowerChar(CharAt(s, 1)) \o ToLowerCase(Tail(s))

\* The positions (from 1) at which pat occurs in text, letter for letter
Occurrences(text, pat) ==
    {i \in 1..(Len(text) - Len(pat) + 1) : SubSeq(text, i, i + Len(pat) - 1) = pat}

\* String.prototype.includes
Includes(text, pat) == Len(pat) = 0 \/ Occurrences(text, pat) # {}

Min(S) == CHOOSE n \in S : \A m \in S : n <= m

\* new RegExp(pattern, 'gi').  The patterns of the model are made of letters,
\* digits, "." (any character) and "(": a group that is opened and not
\* closed is a SyntaxError.
ValidRegExp(pattern) == ~Includes(pattern, "(")

\* The pattern matches the text at position i (from 1), ignoring case.
MatchesAt(pattern, text, i) ==
    \A j \in 1..Len(pattern) :
        \/ CharAt(pattern, j) = "."
        \/ LowerChar(CharAt(pattern, j)) = LowerChar(CharAt(text, i + j - 1))

\* RegExp.prototype.test of a global expression: the search starts at
\* lastIndex; a match leaves lastIndex behind the match, a failure resets it.
RegExpTest(pattern, text, lastIndex) ==
    LET hits == {i \in (lastIndex + 1)..(Len(text) - Len(pattern) + 1) :
                    MatchesAt(pattern, text, i)}
    IN IF hits = {}
       THEN [found |-> FALSE, lastIndex |-> 0]
       ELSE [found |-> TRUE, lastIndex |-> Min(hits) - 1 + Len(pattern)]

\* Fault: a literal matcher that compares the cases as they are.
LiteralTestExact(pattern, text) == Includes(text, pattern)

\* text.toLowerCase().includes(pattern.toLowerCase())
LiteralTest(pattern, text) == Includes(ToLowerCase(text), ToLowerCase(pattern))

\* The matcher of a search: the pattern, the mode, and the lastIndex of its
\* regular expression (shared by all the texts the search tests).
Matcher(pattern, useRegex) ==
    [pattern |-> pattern, useRegex |-> useRegex, lastIndex |-> 0]

\* matcher(text): whether the text matches, and the matcher afterwards
Test(m, text) ==
    IF m.useRegex
    THEN RegExpTest(m.pattern, text, m.lastIndex)
    ELSE [found |-> LiteralTest(m.pattern, text), lastIndex |-> m.lastIndex]

\* lines.slice(startLine, endLine + 1).map(`${n}: ${line}`).join('\n'), around
\* line i (from 1)
RECURSIVE NumberedLines(_, _, _)
NumberedLines(lines, from, to) ==
    IF from > to THEN ""
    ELSE ToString(from) \o ": " \o lines[from]
         \o (IF from < to THEN "\n" \o NumberedLines(lines, from + 1, to) ELSE "")

\* Fault: a context that ends with the matched line.
ContextTextBefore(lines, i, contextLines) ==
    LET startLine == IF i - contextLines < 1 THEN 1 ELSE i - contextLines
    IN NumberedLines(lines, startLine, i)

ContextText(lines, i, contextLines) ==
    LET startLine == IF i - contextLines < 1 THEN 1 ELSE i - contextLines
        endLine == IF i + contextLines > Len(lines) THEN Len(lines) ELSE i + contextLines
    IN NumberedLines(lines, startLine, endLine)

\* The loop over the lines of one file: the entries it pushes for the lines
\* that match, and the matcher afterwards.  src names the file: its type, the
\* name the entries carry, and the number of context lines.
RECURSIVE ScanLines(_, _, _, _)
ScanLines(lines, i, m, src) ==
    IF i > Len(lines) THEN [matches |-> <<>>, lastIndex |-> m.lastIndex]
    ELSE LET r == Test(m, lines[i])
             rest == ScanLines(lines, i + 1, [m EXCEPT !.lastIndex = r.lastIndex], src)
         IN IF r.found
            THEN [rest EXCEPT !.matches =
                     <<[type |-> src.type, filepath |-> src.filepath,
                        lineNumber |-> i, matchedLine |-> lines[i],
                        context |-> ContextText(lines, i, src.contextLines)]>> \o @]
            ELSE rest

\* ----------------------------------------------------- the text of the files
Quote(s) == "\"" \o s \o "\""

\* path.join(this.logDir, `request_${uniqueId}.json`) and the like
FileName(p) ==
    p.dir \o "/" \o
       (CASE p.kind = "request" -> "request_" \o ToString(p.id) \o ".json"
          [] p.kind = "response" -> "response_" \o ToString(p.id) \o ".json"
          [] p.kind = "request_body" -> "request_" \o ToString(p.id) \o "_body.raw"
          [] p.kind = "response_body" -> "response_" \o ToString(p.id) \o "_body.raw"
          [] OTHER -> p.kind)

\* `request_${uniqueId}_body.raw`, `response_${uniqueId}_body.raw`
BodyFileName(name) ==
    IF name.kind = "request_body.raw"
    THEN "request_" \o ToString(name.id) \o "_body.raw"
    ELSE "response_" \o ToString(name.id) \o "_body.raw"

\* The body a file shows: the reference that replaced it, in full
BodyShown(body, uid) ==
    CASE body = "[See: request body]" -> "[See: request_" \o ToString(uid) \o "_body.raw]"
      [] body = "[See: response body]" -> "[See: response_" \o ToString(uid) \o "_body.raw]"
      [] OTHER -> body

\* JSON.stringify(object, null, 2) leaves out what is undefined.  A member is
\* a sequence of lines; these give the members of one key, none or one.
StringMember(key, s) ==
    IF Truthy(s) THEN <<<<Quote(key) \o ": " \o Quote(s)>>>> ELSE <<>>

NumberMember(key, n) ==
    IF n # NoNum THEN <<<<Quote(key) \o ": " \o ToString(n)>>>> ELSE <<>>

PathMember(key, p) ==
    IF p # NoPath THEN <<<<Quote(key) \o ": " \o Quote(FileName(p))>>>> ELSE <<>>

NameMember(key, name) ==
    IF name # NoName THEN <<<<Quote(key) \o ": " \o Quote(BodyFileName(name))>>>> ELSE <<>>

\* The headers of a response: an object with its content-type
HeadersMember(key, headers, mimeType) ==
    IF headers # NoStr
    THEN <<<<Quote(key) \o ": {",
             "  " \o Quote("content-type") \o ": " \o Quote(mimeType),
             "}">>>>
    ELSE <<>>

\* The lines of an object with these members: indented by two, a comma
\* after every member but the last
RECURSIVE MemberLines(_, _)
MemberLines(members, k) ==
    IF k > Len(members) THEN <<>>
    ELSE LET m == members[k]
             comma == IF k < Len(members) THEN "," ELSE ""
         IN [j \in 1..Len(m) |-> "  " \o m[j] \o (IF j = Len(m) THEN comma ELSE "")]
            \o MemberLines(members, k + 1)

ObjectLines(members) == <<"{">> \o MemberLines(members, 1) \o <<"}">>

\* The members of a request file, in the order the properties were assigned
\* (a size is written last; the model's requests carry no headers).
RequestMembers(r) ==
    StringMember("url", r.url)
    \o StringMember("method", r.method)
    \o StringMember("timestamp", ToString(r.timestamp))
    \o StringMember("requestBody", BodyShown(r.requestBody, r.uniqueId))
    \o StringMember("requestId", r.requestId)
    \o StringMember("uniqueId", ToString(r.uniqueId))
    \o NameMember("requestBodyFilepath", r.requestBodyFilepath)
    \o PathMember("requestFilepath", r.requestFilepath)
    \o NumberMember("responseStatus", r.responseStatus)
    \o HeadersMember("responseHeaders", r.responseHeaders, r.type)
    \o StringMember("type", r.type)
    \o StringMember("responseBody", BodyShown(r.responseBody, r.uniqueId))
    \o PathMember("responseFilepath", r.responseFilepath)
    \o NameMember("responseBodyFilepath", r.responseBodyFilepath)
    \o NumberMember("size", r.size)

\* The members of a response file (the model's responses carry neither the
\* url nor the time of capture).
ResponseMembers(s) ==
    StringMember("requestId", s.requestId)
    \o NumberMember("status", s.status)
    \o HeadersMember("headers", s.headers, s.mimeType)
    \o StringMember("mimeType", s.mimeType)
    \o StringMember("body", BodyShown(s.body, s.uniqueId))
    \o StringMember("uniqueId", ToString(s.uniqueId))
    \o NameMember("bodyFilepath", s.bodyFilepath)

\* beautifyContent, then split('\n').  The bodies of the model are JSON
\* objects: content.trim().startsWith('{'), JSON.parse succeeds, and the
\* result is JSON.stringify(parsed, null, 2).
BeautifyContent(content) ==
    CASE content = "{\"test\": \"data\"}" -> <<"{", "  \"test\": \"data\"", "}">>
      [] content = "{\"ok\": true}" -> <<"{", "  \"ok\": true", "}">>
      [] OTHER -> <<content>>

\* (await fs.readFile(path, 'utf-8')).split('\n'), for a file the logger wrote
Lines(content) ==
    IF "t" \in DOMAIN content
    THEN IF content.t = "raw" THEN BeautifyContent(content.of)
         ELSE ObjectLines(ResponseMembers(content))
    ELSE ObjectLines(RequestMembers(content))

\* ------------------------------------------------------------ searchInFiles
\* The four files of a record, in the order searchInFiles reads them
FileTypes == <<"request-metadata", "request-body", "response-metadata", "response-body">>

\* The path searchInFiles reads for the k-th file of record r, NoPath if the
\* record has no such file; the bodies are looked up in this.logDir.
SearchPath(r, k, dir) ==
    CASE k = 1 -> r.requestFilepath
      [] k = 2 -> IF r.requestBodyFilepath # NoName
                  THEN Path(dir, "request_body", r.requestBodyFilepath.id) ELSE NoPath
      [] k = 3 -> r.responseFilepath
      [] OTHER -> IF r.responseBodyFilepath # NoName
                  THEN Path(dir, "response_body", r.responseBodyFilepath.id) ELSE NoPath

\* The filepath the entries of that file carry
SearchName(r, k) ==
    CASE k = 1 -> FileName(r.requestFilepath)
      [] k = 2 -> BodyFileName(r.requestBodyFilepath)
      [] k = 3 -> FileName(r.responseFilepath)
      [] OTHER -> BodyFileName(r.responseBodyFilepath)

\* results.push({ uniqueId, url, method, timestamp, status, matches })
SearchResult(r, matches) ==
    [uniqueId |-> r.uniqueId, url |-> r.url, method |-> r.method,
     timestamp |-> r.timestamp, status |-> r.responseStatus, matches |-> matches]

\* searchInFiles from the k-th file of record s.i on, up to the next
\* readFile: files a record does not have are passed over, a record with
\* matches is pushed when its files are through, and the loop ends when the
\* record list, as it is by then, is through.
RECURSIVE SearchAdvance(_, _, _, _)
SearchAdvance(s, reqs, dir, k) ==
    IF s.i > Len(reqs) THEN [s EXCEPT !.pc = "done"]
    ELSE IF k > Len(FileTypes)
    THEN SearchAdvance([s EXCEPT !.results = IF s.matches # <<>>
                                             THEN Append(@, SearchResult(reqs[s.i], s.matches))
                                             ELSE @,
                                 !.matches = <<>>,
                                 !.i = @ + 1],
                       reqs, dir, 1)
    ELSE IF SearchPath(reqs[s.i], k, dir) = NoPath
    THEN SearchAdvance(s, reqs, dir, k + 1)
    ELSE [s EXCEPT !.pc = "read", !.file = k,
                   !.path = SearchPath(reqs[s.i], k, dir),
                   !.name = SearchName(reqs[s.i], k),
                   !.reads = @ + 1]

\* searchInFiles, from its call (with a pattern that compiles) to its first
\* readFile.  `size`, the length of the record list at the call, `reads` and
\* `failed`, the reads made and those that failed, are kept for the properties.
SearchBegin(pattern, useRegex, contextLines, reqs, dir) ==
    SearchAdvance([pc |-> "read", pattern |-> pattern, useRegex |-> useRegex,
                   contextLines |-> contextLines, lastIndex |-> 0,
                   i |-> 1, file |-> 0, path |-> NoPath, name |-> "",
                   matches |-> <<>>, results |-> <<>>,
                   size |-> Len(reqs), reads |-> 0, failed |-> 0,
                   query |-> NoReply],
                  reqs, dir, 1)

\* Fault: a read that fails ends the work on the record: what its other files
\* matched is dropped and its remaining files are not read.
SearchAfterReadDroppingRecord(s, ok, fs, reqs, dir) ==
    IF ok
    THEN LET scan == ScanLines(Lines(fs[s.path]), 1,
                               [pattern |-> s.pattern, useRegex |-> s.useRegex,
                                lastIndex |-> s.lastIndex],
                               [type |-> FileTypes[s.file], filepath |-> s.name,
                                contextLines |-> s.contextLines])
         IN SearchAdvance([s EXCEPT !.matches = @ \o scan.matches,
                                    !.lastIndex = scan.lastIndex],
                          reqs, dir, s.file + 1)
    ELSE SearchAdvance([s EXCEPT !.matches = <<>>, !.failed = @ + 1],
                       reqs, dir, Len(FileTypes) + 1)

\* searchInFiles after a readFile: the lines of the file are scanned, or the
\* error of the read is caught; then on to the next readFile.
SearchAfterRead(s, ok, fs, reqs, dir) ==
    LET scan == IF ok
                THEN ScanLines(Lines(fs[s.path]), 1,
                               [pattern |-> s.pattern, useRegex |-> s.useRegex,
                                lastIndex |-> s.lastIndex],
                               [type |-> FileTypes[s.file], filepath |-> s.name,
                                contextLines |-> s.contextLines])
                ELSE [matches |-> <<>>, lastIndex |-> s.lastIndex]
    IN SearchAdvance([s EXCEPT !.matches = @ \o scan.matches,
                               !.lastIndex = scan.lastIndex,
                               !.failed = IF ok THEN @ ELSE @ + 1],
                     reqs, dir, s.file + 1)

\* ------------------------------------------------ search_network_logs, memory
\* The texts the in-memory search tests for record r, in order (requests and
\* responses included, no method or status filter)
HeaderValues(r) == IF r.responseHeaders # NoStr THEN <<r.type>> ELSE <<>>
BodyText(s) == IF Truthy(s) THEN <<s>> ELSE <<>>

SearchTexts(r, searchIn) ==
    CASE searchIn = "url" -> <<r.url>>
      [] searchIn = "method" -> <<r.method>>
      [] searchIn = "headers" -> HeaderValues(r)
      [] searchIn = "body" -> BodyText(r.requestBody) \o BodyText(r.responseBody)
      [] OTHER -> <<r.url, r.method>> \o BodyText(r.requestBody)
                  \o HeaderValues(r) \o BodyText(r.responseBody)

\* matches = matches || matcher(a) || matcher(b) ...: the texts are tested
\* until one matches.
RECURSIVE TestAny(_, _, _)
TestAny(m, texts, k) ==
    IF k > Len(texts) THEN [found |-> FALSE, lastIndex |-> m.lastIndex]
    ELSE LET r == Test(m, texts[k])
         IN IF r.found THEN r
            ELSE TestAny([m EXCEPT !.lastIndex = r.lastIndex], texts, k + 1)

\* requests.filter(...): the positions of the records that match, and the
\* matcher afterwards
RECURSIVE FilterRequests(_, _, _, _)
FilterRequests(reqs, k, m, searchIn) ==
    IF k > Len(reqs) THEN [matched |-> <<>>, lastIndex |-> m.lastIndex]
    ELSE LET r == TestAny(m, SearchTexts(reqs[k], searchIn), 1)
             rest == FilterRequests(reqs, k + 1, [m EXCEPT !.lastIndex = r.lastIndex], searchIn)
         IN IF r.found THEN [rest EXCEPT !.matched = <<k>> \o @] ELSE rest

\* `${label}: ...${body.substring(start, end)}...` around the first place
\* where the body holds the pattern as a literal; nothing if it does not
Snippet(label, body, pattern) ==
    LET at == Occurrences(ToLowerCase(body), ToLowerCase(pattern))
        matchIndex == Min(at) - 1
        start == IF matchIndex - 50 < 0 THEN 0 ELSE matchIndex - 50
        end == IF matchIndex + Len(pattern) + 50 > Len(body)
               THEN Len(body) ELSE matchIndex + Len(pattern) + 50
    IN IF at = {} THEN <<>>
       ELSE <<label \o ": ..." \o SubSeq(body, start + 1, end) \o "...">>

\* matchedRequests.map(...): the summary of each matched record; for the
\* modes body and all the matcher is applied to the bodies once more.
RECURSIVE MatchSummaries(_, _, _, _, _)
MatchSummaries(reqs, matched, k, m, searchIn) ==
    IF k > Len(matched) THEN <<>>
    ELSE LET r == reqs[matched[k]]
             bodies == searchIn \in {"body", "all"}
             t1 == IF bodies /\ Truthy(r.requestBody)
                   THEN Test(m, r.requestBody)
                   ELSE [found |-> FALSE, lastIndex |-> m.lastIndex]
             m1 == [m EXCEPT !.lastIndex = t1.lastIndex]
             t2 == IF bodies /\ Truthy(r.responseBody)
                   THEN Test(m1, r.responseBody)
                   ELSE [found |-> FALSE, lastIndex |-> m1.lastIndex]
             m2 == [m1 EXCEPT !.lastIndex = t2.lastIndex]
         IN <<[timestamp |-> r.timestamp, method |-> r.method, url |-> r.url,
               status |-> r.responseStatus,
               matchedContent |->
                   (IF t1.found THEN Snippet("Request", r.requestBody, m.pattern) ELSE <<>>)
                   \o (IF t2.found THEN Snippet("Response", r.responseBody, m.pattern) ELSE <<>>)]>>
            \o MatchSummaries(reqs, matched, k + 1, m2, searchIn)

\* ----------------------------------------------------------- the log source
FirstKey == "17.1"

\* The entries a fetch may return: what the browser logs is not under the
\* logger's control.
ExchangeTypes == {<<k, key>> : k \in {"req", "resp"}, key \in Keys}

EntryTypes ==
    ExchangeTypes
    \cup {<<"fin", key>> : key \in Keys}
    \cup {<<"malformed", FirstKey>>, <<"other", FirstKey>>}

Total(em) == em["malformed"] + em["other"] + em["req"] + em["resp"] + em["fin"]

\* The j-th entry of a run is the n-th of its kind.
Ordinal(em, f, j) ==
    em[f[j][1]] + Cardinality({m \in 1..j : f[m][1] = f[j][1]})

\* The browser numbers its requests: the first request it logs is FirstKey.
Numbered(em, f) ==
    \A j \in DOMAIN f :
        (f[j][1] = "req" /\ Ordinal(em, f, j) = 1) => f[j][2] = FirstKey

\* The entries the loop may meet next, when `em` of at most `max` entries
\* were met before and the browser logs entries of `types`.
Runs(em, max, types) ==
    UNION {{[j \in 1..m |-> Entry(f[j][1], f[j][2], Ordinal(em, f, j))] :
              f \in {g \in [1..m -> types] : Numbered(em, g)}}
           : m \in 0..(max - Total(em))}

Logged(em, run) ==
    [k \in Kinds |-> em[k] + Cardinality({j \in 1..Len(run) : run[j].kind = k})]

\* ------------------------------------------------------------------ actions
\* The logger and the tools when the process has started
Started ==
    /\ driver = "unset"
    /\ logDir = TsDir
    /\ requests = <<>>
    /\ requestMap = <<>>
    /\ captureInterval = 0
    /\ isCapturing = FALSE
    /\ timers = {}
    /\ starts = 0
    /\ nextId = 0
    /\ dirs = {}
    /\ files = <<>>
    /\ emitted = [k \in Kinds |-> 0]
    /\ tasks = [t \in Tasks |-> IdleTask]
    /\ call = NoCall
    /\ raised = ""
    /\ fetchErrors = 0
    /\ sessions = <<>>
    /\ rmErrors = 0
    /\ search = NoSearch
    /\ reply = NoReply
    /\ cdpLogger = 0

Init == Started /\ probe = NoProbe

\* Fault: an accessor that makes a new logger at every call.
GetNetworkLoggerAnew(logger) == logger + 1

\* getNetworkLogger: the instance is made at the first call and returned at
\* every call.  Instances are numbered as they are constructed.
GetNetworkLogger(logger) == IF logger = 0 THEN 1 ELSE logger

Free(t) == tasks[t].pc = "idle"
InFlight(t) == ~Free(t)

\* No captureLogs call is in flight: every entry met has been processed.
Quiet == \A t \in Tasks : Free(t)

\* stopCapture after its captureLogs call returned
StopCaptureContinue(cleanup) ==
    IF cleanup THEN [op |-> "rm", cleanup |-> TRUE] ELSE NoCall

\* A run of task t ends in store st: the collections and files are as the run
\* left them; a finished drain lets stopCapture go on.
Commit(t, st) ==
    /\ requests' = st.requests
    /\ requestMap' = st.requestMap
    /\ files' = st.files
    /\ nextId' = st.nextId
    /\ tasks' = [tasks EXCEPT ![t] = IF st.task.pc = "done"
                                     THEN [IdleTask EXCEPT !.seen = st.task.seen]
                                     ELSE st.task]
    /\ call' = IF t = DrainTask /\ st.task.pc = "done"
               THEN StopCaptureContinue(call.cleanup) ELSE call
    /\ UNCHANGED <<driver, logDir, captureInterval, isCapturing, timers, starts,
                   dirs, raised, sessions, toolVars>>

\* A run of task t that stays within the entry it is handling
Stay(t, st) ==
    /\ emitted' = emitted
    /\ fetchErrors' = fetchErrors
    /\ Commit(t, st)

\* A run of task t that goes on with the loop, over the entries `run`
Proceed(t, st, run) ==
    /\ NextAwait(run, st.requestMap) >= Len(run)
    /\ emitted' = Logged(emitted, run)
    /\ fetchErrors' = fetchErrors
    /\ Commit(t, Begin(st, run, logDir))

\* setDriver, with a browser that was just launched
SetDriver ==
    /\ call = NoCall
    /\ driver = "unset"
    /\ driver' = "alive"
    /\ raised' = ""
    /\ UNCHANGED <<logDir, requests, requestMap, captureInterval, isCapturing,
                   timers, starts, nextId, dirs, files, emitted, tasks, call,
                   fetchErrors, sessions, rmErrors, search, reply, probe>>
    /\ cdpLogger' = GetNetworkLogger(cdpLogger)

\* setLogDirectory.  The launchers call it just before startCapture
\* (webdrivers/chrome.ts 68-72): the model gives an override between captures.
SetLogDirectory(dir) ==
    /\ call = NoCall
    /\ ~isCapturing
    /\ logDir' = IF dir # "" THEN dir ELSE logDir
    /\ raised' = ""
    /\ UNCHANGED <<driver, requests, requestMap, captureInterval, isCapturing,
                   timers, starts, nextId, dirs, files, emitted, tasks, call,
                   fetchErrors, sessions, rmErrors, search, reply, probe>>
    /\ cdpLogger' = GetNetworkLogger(cdpLogger)

\* Fault: startCapture without its driver check.
StartCaptureUnchecked ==
    /\ call = NoCall
    /\ starts < MaxStarts
    /\ raised' = ""
    /\ call' = [op |-> "mkdir", cleanup |-> FALSE]
    /\ UNCHANGED <<driver, logDir, requests, requestMap, captureInterval, isCapturing,
                   timers, starts, nextId, dirs, files, emitted, tasks, fetchErrors,
                   sessions, rmErrors, search, reply, probe>>
    /\ cdpLogger' = GetNetworkLogger(cdpLogger)

\* startCapture, up to await fs.mkdir
StartCapture ==
    /\ call = NoCall
    /\ starts < MaxStarts
    /\ IF driver = "unset"
       THEN /\ raised' = "WebDriver not set"
            /\ call' = call
       ELSE /\ raised' = ""
            /\ call' = [op |-> "mkdir", cleanup |-> FALSE]
    /\ UNCHANGED <<driver, logDir, requests, requestMap, captureInterval, isCapturing,
                   timers, starts, nextId, dirs, files, emitted, tasks, fetchErrors,
                   sessions, rmErrors, search, reply, probe>>
    /\ cdpLogger' = GetNetworkLogger(cdpLogger)

\* startCapture after fs.mkdir: the flag and the interval timer
StartCaptureDone ==
    /\ call.op = "mkdir"
    /\ dirs' = dirs \cup {logDir}
    /\ isCapturing' = TRUE
    /\ starts' = starts + 1
    /\ captureInterval' = starts + 1
    /\ timers' = timers \cup {starts + 1}
    /\ call' = NoCall
    /\ UNCHANGED <<driver, logDir, requests, requestMap, nextId, files, emitted, tasks, raised,
                   fetchErrors, sessions, toolVars>>

\* A new captureLogs call: it returns at once when no driver is set, else it
\* asks the driver for the performance log.
CaptureLogsBegin == IF driver = "unset" THEN IdleTask ELSE [IdleTask EXCEPT !.pc = "fetch"]

\* Fault: an interval callback that does not test isCapturing.
TickUnguarded(h) ==
    /\ h \in timers
    /\ \E t \in TickTasks :
          /\ Free(t)
          /\ t = "tick2" => InFlight("tick1")
          /\ tasks' = [tasks EXCEPT ![t] = CaptureLogsBegin]
    /\ UNCHANGED <<driver, logDir, requests, requestMap, captureInterval, isCapturing,
                   timers, starts, nextId, dirs, files, emitted, call, raised,
                   fetchErrors, sessions, toolVars>>

\* The interval callback of a live timer runs.
Tick(h) ==
    /\ h \in timers
    /\ IF isCapturing
       THEN \E t \in TickTasks :
              /\ Free(t)
              /\ t = "tick2" => InFlight("tick1")
              /\ tasks' = [tasks EXCEPT ![t] = CaptureLogsBegin]
       ELSE tasks' = tasks
    /\ UNCHANGED <<driver, logDir, requests, requestMap, captureInterval, isCapturing,
                   timers, starts, nextId, dirs, files, emitted, call, raised,
                   fetchErrors, sessions, toolVars>>

\* stopCapture, up to await this.captureLogs() (or to cleanupLogs)
StopCapture(cleanup) ==
    /\ call = NoCall
    /\ isCapturing' = FALSE
    /\ timers' = timers \ {captureInterval}
    /\ captureInterval' = 0
    /\ raised' = ""
    /\ IF driver # "unset"
       THEN /\ tasks' = [tasks EXCEPT ![DrainTask] = CaptureLogsBegin]
            /\ call' = [op |-> "drain", cleanup |-> cleanup]
       ELSE /\ tasks' = tasks
            /\ call' = StopCaptureContinue(cleanup)
    /\ UNCHANGED <<driver, logDir, requests, requestMap, starts, nextId, dirs, files,
                   emitted, fetchErrors, sessions, rmErrors, search, reply, probe>>
    /\ cdpLogger' = GetNetworkLogger(cdpLogger)

\* The options of start_browser: preserveNetworkLogs and networkLogDir
\* ("" when the caller gives none)
BrowserOptions == [preserveNetworkLogs : BOOLEAN, networkLogDir : {"", CustomDir}]

\* The same with logNetworkRequests, which the caller may give or not
ChromeOptions ==
    BrowserOptions \cup [preserveNetworkLogs : BOOLEAN, networkLogDir : {"", CustomDir},
                         logNetworkRequests : BOOLEAN]

\* startChrome: const shouldLogNetwork = options.logNetworkRequests !== false
ShouldLogNetwork(options) ==
    ~("logNetworkRequests" \in DOMAIN options /\ ~options.logNetworkRequests)

\* The session start_browser records.  state.sessionOptions keeps
\* preserveNetworkLogs; networkLogDir and dir (the directory the capture of
\* the session writes to, "" if it has no capture) and logNetworkRequests
\* (whether the caller asked for the capture) are kept here for the
\* properties only.
Session(options, dir) ==
    [preserveNetworkLogs |-> options.preserveNetworkLogs,
     networkLogDir |-> options.networkLogDir, dir |-> dir, open |-> TRUE,
     logNetworkRequests |-> ShouldLogNetwork(options)]

\* state.currentSession: the last session, while it is open; 0 if none
CurrentSession ==
    IF sessions # <<>> /\ sessions[Len(sessions)].open THEN Len(sessions) ELSE 0

\* Fault: a startChrome that sets the logger up whatever the caller asked for.
StartBrowserAlwaysLogging(options) ==
    /\ call = NoCall
    /\ CurrentSession = 0
    /\ starts < MaxStarts
    /\ \A t \in Tasks : tasks[t].pc # "fetch"
    /\ driver' = "alive"
    /\ logDir' = IF options.networkLogDir # "" THEN options.networkLogDir ELSE logDir
    /\ call' = [op |-> "mkdir", cleanup |-> FALSE]
    /\ sessions' = Append(sessions, Session(options, logDir'))
    /\ raised' = ""
    /\ UNCHANGED <<requests, requestMap, captureInterval, isCapturing, timers, starts,
                   nextId, dirs, files, emitted, tasks, fetchErrors,
                   rmErrors, search, reply, probe>>
    /\ cdpLogger' = GetNetworkLogger(cdpLogger)

\* start_browser with a Chromium browser: the browser is launched, then,
\* unless logNetworkRequests is false, setDriver,
\* setLogDirectory(options.networkLogDir) and startCapture up to await
\* fs.mkdir; the session is recorded when startChrome has returned.  One
\* browser session at a time, launched when the fetches on the previous
\* browser have been answered.
StartBrowser(options) ==
    /\ call = NoCall
    /\ CurrentSession = 0
    /\ starts < MaxStarts
    /\ \A t \in Tasks : tasks[t].pc # "fetch"
    /\ IF ShouldLogNetwork(options)
       THEN /\ driver' = "alive"
            /\ logDir' = IF options.networkLogDir # "" THEN options.networkLogDir ELSE logDir
            /\ call' = [op |-> "mkdir", cleanup |-> FALSE]
            /\ sessions' = Append(sessions, Session(options, logDir'))
       ELSE /\ UNCHANGED <<driver, logDir, call>>
            /\ sessions' = Append(sessions, Session(options, ""))
    /\ raised' = ""
    /\ UNCHANGED <<requests, requestMap, captureInterval, isCapturing, timers, starts,
                   nextId, dirs, files, emitted, tasks, fetchErrors,
                   rmErrors, search, reply, probe>>
    /\ cdpLogger' = IF ShouldLogNetwork(options) THEN GetNetworkLogger(cdpLogger) ELSE cdpLogger

\* close_session, up to await driver.quit(): the browser goes down.
CloseSession ==
    /\ call = NoCall
    /\ CurrentSession # 0
    /\ driver' = IF driver = "alive" THEN "quit" ELSE driver
    /\ call' = [op |-> "quit", cleanup |-> FALSE]
    /\ raised' = ""
    /\ UNCHANGED <<logDir, requests, requestMap, captureInterval, isCapturing, timers,
                   starts, nextId, dirs, files, emitted, tasks, fetchErrors, sessions,
                   toolVars>>

\* Fault: a close_session that always asks stopCapture to clean up.
ShouldCleanupAlways(options) == TRUE

\* close_session: const shouldCleanup = !sessionOptions?.preserveNetworkLogs
ShouldCleanup(options) == ~options.preserveNetworkLogs

\* close_session after driver.quit(): the session is forgotten and
\* stopCapture(shouldCleanup) runs up to its await this.captureLogs().
QuitDone ==
    /\ call.op = "quit"
    /\ sessions' = [sessions EXCEPT ![CurrentSession].open = FALSE]
    /\ isCapturing' = FALSE
    /\ timers' = timers \ {captureInterval}
    /\ captureInterval' = 0
    /\ IF driver # "unset"
       THEN /\ tasks' = [tasks EXCEPT ![DrainTask] = CaptureLogsBegin]
            /\ call' = [op |-> "drain", cleanup |-> ShouldCleanup(sessions[CurrentSession])]
       ELSE /\ tasks' = tasks
            /\ call' = StopCaptureContinue(ShouldCleanup(sessions[CurrentSession]))
    /\ UNCHANGED <<driver, logDir, requests, requestMap, starts, nextId, dirs, files,
                   emitted, raised, fetchErrors, rmErrors, search, reply, probe>>
    /\ cdpLogger' = GetNetworkLogger(cdpLogger)

\* logs().get() rejects because the browser is gone: the outer catch, the
\* call returns.
FetchAfterQuit(t) ==
    /\ tasks[t].pc = "fetch"
    /\ driver = "quit"
    /\ Stay(t, [Store(t) EXCEPT !.task.pc = "done"])

\* cleanupLogs after fs.rm
CleanupDone ==
    /\ call.op = "rm"
    /\ files' = RemoveDir(files, logDir)
    /\ dirs' = dirs \ {logDir}
    /\ call' = NoCall
    /\ UNCHANGED <<driver, logDir, requests, requestMap, captureInterval, isCapturing,
                   timers, starts, nextId, emitted, tasks, raised, fetchErrors,
                   sessions, toolVars>>

\* Fault: a cleanupLogs without its try: the error of fs.rm leaves stopCapture.
CleanupFailedThrowing ==
    /\ call.op = "rm"
    /\ rmErrors < MaxRmErrors
    /\ rmErrors' = rmErrors + 1
    /\ raised' = "EACCES: permission denied, rm"
    /\ call' = NoCall
    /\ UNCHANGED <<driver, logDir, requests, requestMap, captureInterval, isCapturing,
                   timers, starts, nextId, dirs, files, emitted, tasks, fetchErrors,
                   sessions, search, reply, probe, cdpLogger>>

\* cleanupLogs when fs.rm rejects (a permission error, a busy file): the catch
\* logs the error, cleanupLogs and stopCapture return.
CleanupFailed ==
    /\ call.op = "rm"
    /\ rmErrors < MaxRmErrors
    /\ rmErrors' = rmErrors + 1
    /\ call' = NoCall
    /\ UNCHANGED <<driver, logDir, requests, requestMap, captureInterval, isCapturing,
                   timers, starts, nextId, dirs, files, emitted, tasks, raised,
                   fetchErrors, sessions, search, reply, probe, cdpLogger>>

\* logs().get() answers with the entries the browser logged since the last
\* fetch: any sequence of entries, malformed ones among them.
FetchDone(t, run) ==
    /\ tasks[t].pc = "fetch"
    /\ driver = "alive"
    /\ Proceed(t, Store(t), run)

\* Fault: a catch that gives up the capture when the fetch fails.
FetchFailStopping(t) ==
    /\ tasks[t].pc = "fetch"
    /\ fetchErrors < MaxFetchErrors
    /\ fetchErrors' = fetchErrors + 1
    /\ isCapturing' = FALSE
    /\ timers' = timers \ {captureInterval}
    /\ captureInterval' = 0
    /\ tasks' = [tasks EXCEPT ![t] = IdleTask]
    /\ call' = IF t = DrainTask THEN StopCaptureContinue(call.cleanup) ELSE call
    /\ UNCHANGED <<driver, logDir, requests, requestMap, starts, nextId, dirs, files,
                   emitted, raised, sessions, toolVars>>

\* logs().get() rejects: the outer catch, the call returns.
FetchFail(t) ==
    /\ tasks[t].pc = "fetch"
    /\ fetchErrors < MaxFetchErrors
    /\ fetchErrors' = fetchErrors + 1
    /\ emitted' = emitted
    /\ Commit(t, [Store(t) EXCEPT !.task.pc = "done"])

\* saveRequest: the body file is written, then the request file; a failed
\* write is caught and saveRequest returns.
RequestBodyWritten(t, run) ==
    /\ tasks[t].pc = "reqBodyWrite"
    /\ LET st == Store(t) IN
       IF CanWrite(dirs, st.task.path)
       THEN /\ run = <<>>
            /\ Stay(t, [WriteBuf(st) EXCEPT
                         !.task.pc = "reqWrite", !.task.path = st.task.rpath,
                         !.task.buf = [st.task.cur EXCEPT
                             !.requestBody = "[See: request body]",
                             !.requestBodyFilepath = BodyName("request", st.task.cur.uniqueId)]])
       ELSE Proceed(t, PushRequest(st), run)

\* Fault: a saveRequest that lets a failed write escape to the per-entry catch.
RequestWrittenThrowing(t, run) ==
    /\ tasks[t].pc = "reqWrite"
    /\ LET st == Store(t) IN
       IF CanWrite(dirs, st.task.path)
       THEN Proceed(t, PushRequest(WriteBuf(st)), run)
       ELSE Proceed(t, [st EXCEPT !.task.cur = NoRec], run)

\* saveRequest returns: the record is pushed and registered.
RequestWritten(t, run) ==
    /\ tasks[t].pc = "reqWrite"
    /\ LET st == Store(t)
           st1 == IF CanWrite(dirs, st.task.path) THEN WriteBuf(st) ELSE st
       IN Proceed(t, PushRequest(st1), run)

\* Network.getResponseBody answers or fails; saveResponse starts.
BodyFetched(t, outcome) ==
    /\ tasks[t].pc = "bodyFetch"
    /\ outcome # "fail" => driver = "alive"
    /\ LET st == Store(t)
           st1 == IF outcome = "fail"
                  THEN [st EXCEPT !.task.body = NoStr]
                  ELSE [st EXCEPT !.task.body = outcome,
                                  !.requests[st.task.rec].responseBody = outcome]
       IN Stay(t, SaveResponseBegin(st1, logDir))

\* saveResponse: the body file is written, then the response file; a failed
\* write is caught and saveResponse returns.
ResponseBodyWritten(t) ==
    /\ tasks[t].pc = "respBodyWrite"
    /\ LET st == Store(t)
           e == Head(st.task.rest)
       IN
       IF CanWrite(dirs, st.task.path)
       THEN Stay(t, [WriteBuf(st) EXCEPT
                         !.task.pc = "respWrite", !.task.path = st.task.spath,
                         !.task.buf = [t |-> "response", requestId |-> e.key,
                                       status |-> e.status, headers |-> HeadersOf(e),
                                       mimeType |-> e.mimeType,
                                       body |-> "[See: response body]",
                                       bodyFilepath |-> BodyName("response", st.task.spath.id),
                                       uniqueId |-> st.task.spath.id]])
       ELSE Stay(t, AfterSaveResponse(st))

\* Fault: a saveResponse that returns the path before it writes the file.
ResponseWrittenDeferred(t) ==
    /\ tasks[t].pc = "respWrite"
    /\ Stay(t, AfterSaveResponse(Store(t)))

ResponseWritten(t) ==
    /\ tasks[t].pc = "respWrite"
    /\ LET st == Store(t)
           st1 == IF CanWrite(dirs, st.task.path) THEN WriteBuf(st) ELSE st
       IN Stay(t, AfterSaveResponse(st1))

\* The request file is rewritten; updateIndex starts reading index.json.  A
\* failed write throws to the per-entry catch.
RequestRewritten(t, run) ==
    /\ tasks[t].pc = "reqRewrite"
    /\ LET st == Store(t) IN
       IF CanWrite(dirs, st.task.path)
       THEN /\ run = <<>>
            /\ Stay(t, [WriteBuf(st) EXCEPT !.task.pc = "idxRead",
                                           !.task.path = IndexPath(logDir),
                                           !.task.buf = NoBuf])
       ELSE Proceed(t, st, run)

\* Fault: an updateIndex without the try around its read: a file that is
\* missing or does not parse ends the handling with an error.
IndexReadRaising(t) ==
    /\ tasks[t].pc = "idxRead"
    /\ LET st == Store(t)
           writing == \E u \in Tasks \ {t} :
                         tasks[u].pc = "idxWrite" /\ tasks[u].path = st.task.path
       IN \E outcome \in ReadOutcomes(files, st.task.path, writing) :
             IF outcome = "ok"
             THEN Stay(t, UpdateIndex([st EXCEPT !.task.read = outcome],
                                      ParseIndex(files, st.task.path, outcome)))
             ELSE Stay(t, [st EXCEPT !.task.pc = "done"])

\* updateIndex: index.json is read (a failure means an empty index), the
\* entry is merged, the write starts.
IndexRead(t) ==
    /\ tasks[t].pc = "idxRead"
    /\ LET st == Store(t)
           writing == \E u \in Tasks \ {t} :
                         tasks[u].pc = "idxWrite" /\ tasks[u].path = st.task.path
       IN \E outcome \in ReadOutcomes(files, st.task.path, writing) :
             Stay(t, UpdateIndex([st EXCEPT !.task.read = outcome],
                                 ParseIndex(files, st.task.path, outcome)))

\* updateIndex returns: the response is handled.  A failed write throws to
\* the per-entry catch.
IndexWritten(t, run) ==
    /\ tasks[t].pc = "idxWrite"
    /\ LET st == Store(t)
           st1 == IF CanWrite(dirs, st.task.path) THEN WriteBuf(st) ELSE st
       IN Proceed(t, [st1 EXCEPT !.task.read = "none"], run)

\* loadingFinished: the request file with the size is written.
SizeWritten(t, run) ==
    /\ tasks[t].pc = "finWrite"
    /\ LET st == Store(t)
           st1 == IF CanWrite(dirs, st.task.path) THEN WriteBuf(st) ELSE st
       IN Proceed(t, st1, run)

\* ---------------------------------------------------------- the query tools
\* The state of the logger and of the sessions, which the query tools read
loggerVars == <<driver, logDir, requests, requestMap, captureInterval, isCapturing,
                timers, starts, nextId, dirs, files, emitted, tasks, call, raised,
                fetchErrors, sessions>>

Patterns == {"(", "get", "requestid"}
SearchModes == {"url", "method", "headers", "body", "all", "files"}
PageUrls == {"", "/api", "/API"}

\* A reply that is a message; `query`, the call it answers, is kept with
\* every reply for the properties.
TextReply(query, text) == [kind |-> "text", query |-> query, text |-> text]

NoSessionText == "Network logging is only available for Chromium-based browsers (Chrome, Edge)"

\* The method and status filters of search_network_logs; NoStr and NoNum are
\* a filter that is not given.
MethodFilters == {NoStr, "get"}
StatusFilters == {NoNum, Pick(StatusPool, 1)}

\* Fault: a method filter that is compared as it was given.
KeptByFiltersAsGiven(result, methodFilter, statusFilter) ==
    /\ ~(methodFilter # NoStr /\ methodFilter # "" /\ result.method # methodFilter)
    /\ ~(statusFilter # NoNum /\ result.status # statusFilter)

\* The predicate of fileResults.filter: `methodFilter &&` skips a filter that
\* is not given or empty, `statusFilter !== undefined` one that is not given.
KeptByFilters(result, methodFilter, statusFilter) ==
    /\ ~(methodFilter # NoStr /\ methodFilter # ""
          /\ result.method # ToUpperCase(methodFilter))
    /\ ~(statusFilter # NoNum /\ result.status # statusFilter)

\* search_network_logs, searchIn = files: the reply when searchInFiles returned
SearchFilesReply(query, s) ==
    IF s.results = <<>>
    THEN TextReply(query, "No matches found in network log files")
    ELSE LET filteredResults ==
                 SelectSeq(s.results,
                           LAMBDA result : KeptByFilters(result, query.methodFilter,
                                                         query.statusFilter))
         IN IF filteredResults = <<>>
            THEN TextReply(query, "No matches found after applying filters")
            ELSE [kind |-> "files", query |-> query, contextLines |-> s.contextLines,
                  totalMatches |-> Len(filteredResults), results |-> filteredResults]

FilesErrorText == "Error searching in files: Invalid regular expression"
MemoryErrorText == "Invalid regex pattern: SyntaxError: Invalid regular expression"

\* search_network_logs, the other modes, when there are records
SearchMemoryReply(query, reqs) ==
    IF query.useRegex /\ ~ValidRegExp(query.pattern)
    THEN TextReply(query, MemoryErrorText)
    ELSE LET m == Matcher(query.pattern, query.useRegex)
             f == FilterRequests(reqs, 1, m, query.searchIn)
         IN IF f.matched = <<>>
            THEN TextReply(query, "No matching network requests found")
            ELSE [kind |-> "matches", query |-> query,
                  totalMatches |-> Len(f.matched),
                  matches |-> MatchSummaries(reqs, f.matched, 1,
                                             [m EXCEPT !.lastIndex = f.lastIndex],
                                             query.searchIn)]

\* Fault: a searchInFiles that compiles its pattern when the matcher is first
\* applied, in the loop.
CompileFailsLater(pattern, useRegex) == FALSE

\* searchInFiles: new RegExp(pattern, 'gi') throws before the loop.
CompileFails(pattern, useRegex) == useRegex /\ ~ValidRegExp(pattern)

\* search_network_logs, up to its reply or to the first readFile of
\* searchInFiles.  The filters are given with searchIn = files only.
SearchNetworkLogs(pattern, useRegex, searchIn, methodFilter, statusFilter) ==
    LET query == [tool |-> "search_network_logs", pattern |-> pattern,
                  useRegex |-> useRegex, searchIn |-> searchIn,
                  methodFilter |-> methodFilter, statusFilter |-> statusFilter]
    IN
    /\ searchIn # "files" => (methodFilter = NoStr /\ statusFilter = NoNum)
    /\ reply = NoReply
    /\ search.pc = "idle"
    /\ IF CurrentSession = 0
       THEN reply' = TextReply(query, NoSessionText) /\ search' = search
       ELSE IF searchIn = "files"
       THEN IF CompileFails(pattern, useRegex)
            THEN /\ reply' = TextReply(query, FilesErrorText)
                 /\ search' = search
            ELSE LET s == SearchBegin(pattern, useRegex, DefaultContextLines, requests, logDir)
                 IN IF s.pc = "done"
                    THEN reply' = SearchFilesReply(query, s) /\ search' = [s EXCEPT !.pc = "idle"]
                    ELSE reply' = reply /\ search' = [s EXCEPT !.query = query]
       ELSE /\ reply' = IF requests = <<>>
                        THEN TextReply(query, "No network requests found")
                        ELSE SearchMemoryReply(query, requests)
            /\ search' = search
    /\ UNCHANGED <<loggerVars, rmErrors, probe>>
    /\ cdpLogger' = IF CurrentSession = 0 THEN cdpLogger ELSE GetNetworkLogger(cdpLogger)

\* A readFile of searchInFiles answers, or fails: the file is gone, or
\* (MaxReadErrors times in a search) it cannot be read for another reason.
\* When the last record is through, search_network_logs replies.
SearchFileRead(ok) ==
    /\ search.pc = "read"
    /\ ok => Exists(files, search.path)
    /\ (~ok /\ Exists(files, search.path)) => search.failed < MaxReadErrors
    /\ LET s == SearchAfterRead(search, ok, files, requests, logDir)
       IN IF s.pc = "done"
          THEN reply' = SearchFilesReply(search.query, s) /\ search' = [s EXCEPT !.pc = "idle"]
          ELSE reply' = reply /\ search' = s
    /\ UNCHANGED <<loggerVars, rmErrors, probe, cdpLogger>>

\* The reply of a query tool goes to the caller; nothing of the call is kept.
ReplySent ==
    /\ reply # NoReply
    /\ reply' = NoReply
    /\ search' = NoSearch
    /\ UNCHANGED <<loggerVars, rmErrors, probe, cdpLogger>>

\* Fault: get_page_requests without its filter.
GetPageRequestsUnfiltered(pageUrl) ==
    LET query == [tool |-> "get_page_requests", pageUrl |-> pageUrl] IN
    /\ reply = NoReply
    /\ search.pc = "idle"
    /\ reply' = IF CurrentSession = 0 THEN TextReply(query, NoSessionText)
                ELSE IF requests = <<>>
                THEN TextReply(query, "No network requests found")
                ELSE [kind |-> "summary", query |-> query,
                      totalRequests |-> Len(requests),
                      pageUrl |-> IF pageUrl # "" THEN pageUrl ELSE "All pages",
                      requests |-> [k \in 1..Len(requests) |->
                          [timestamp |-> requests[k].timestamp,
                           method |-> requests[k].method,
                           url |-> requests[k].url,
                           status |-> requests[k].responseStatus,
                           type |-> requests[k].type,
                           size |-> requests[k].size]]]
    /\ UNCHANGED <<loggerVars, rmErrors, search, probe>>
    /\ cdpLogger' = IF CurrentSession = 0 THEN cdpLogger ELSE GetNetworkLogger(cdpLogger)

\* get_page_requests
GetPageRequests(pageUrl) ==
    LET query == [tool |-> "get_page_requests", pageUrl |-> pageUrl]
        filteredRequests == IF pageUrl # ""
                            THEN SelectSeq(requests, LAMBDA r : Includes(r.url, pageUrl))
                            ELSE requests
    IN
    /\ reply = NoReply
    /\ search.pc = "idle"
    /\ reply' = IF CurrentSession = 0 THEN TextReply(query, NoSessionText)
                ELSE IF requests = <<>>
                THEN TextReply(query, "No network requests found")
                ELSE [kind |-> "summary", query |-> query,
                      totalRequests |-> Len(filteredRequests),
                      pageUrl |-> IF pageUrl # "" THEN pageUrl ELSE "All pages",
                      requests |-> [k \in 1..Len(filteredRequests) |->
                          [timestamp |-> filteredRequests[k].timestamp,
                           method |-> filteredRequests[k].method,
                           url |-> filteredRequests[k].url,
                           status |-> filteredRequests[k].responseStatus,
                           type |-> filteredRequests[k].type,
                           size |-> filteredRequests[k].size]]]
    /\ UNCHANGED <<loggerVars, rmErrors, search, probe>>
    /\ cdpLogger' = IF CurrentSession = 0 THEN cdpLogger ELSE GetNetworkLogger(cdpLogger)

\* The entries the loop may meet next, under each specification
SpecRuns == Runs(emitted, MaxEvents, EntryTypes)
SessionRuns == Runs(emitted, MaxSessionEvents, EntryTypes)
PollRuns == Runs(emitted, MaxPollEvents, ExchangeTypes)

\* Every use of the logger: any API call at any time.
Next ==
    \/ SetDriver
    \/ \E d \in {"", CustomDir} : SetLogDirectory(d)
    \/ StartCapture
    \/ StartCaptureDone
    \/ \E h \in 1..MaxStarts : Tick(h)
    \/ \E c \in BOOLEAN : StopCapture(c)
    \/ CleanupDone
    \/ \E t \in Tasks, r \in SpecRuns : FetchDone(t, r)
    \/ \E t \in Tasks : FetchFail(t)
    \/ \E t \in Tasks, r \in SpecRuns : RequestBodyWritten(t, r)
    \/ \E t \in Tasks, r \in SpecRuns : RequestWritten(t, r)
    \/ \E t \in Tasks, o \in BodyOutcomes : BodyFetched(t, o)
    \/ \E t \in Tasks : ResponseBodyWritten(t)
    \/ \E t \in Tasks : ResponseWritten(t)
    \/ \E t \in Tasks, r \in SpecRuns : RequestRewritten(t, r)
    \/ \E t \in Tasks : IndexRead(t)
    \/ \E t \in Tasks, r \in SpecRuns : IndexWritten(t, r)
    \/ \E t \in Tasks, r \in SpecRuns : SizeWritten(t, r)

Spec == Init /\ [][Next]_vars

\* One capture session in the default directory, stopped without cleanup:
\* fewer API calls, more log entries.
SessionNext ==
    \/ SetDriver
    \/ starts = 0 /\ StartCapture
    \/ StartCaptureDone
    \/ \E h \in 1..MaxStarts : Tick(h)
    \/ StopCapture(FALSE)
    \/ \E t \in Tasks, r \in SessionRuns : FetchDone(t, r)
    \/ \E t \in Tasks : FetchFail(t)
    \/ \E t \in Tasks, r \in SessionRuns : RequestBodyWritten(t, r)
    \/ \E t \in Tasks, r \in SessionRuns : RequestWritten(t, r)
    \/ \E t \in Tasks, o \in BodyOutcomes : BodyFetched(t, o)
    \/ \E t \in Tasks : ResponseBodyWritten(t)
    \/ \E t \in Tasks : ResponseWritten(t)
    \/ \E t \in Tasks, r \in SessionRuns : RequestRewritten(t, r)
    \/ \E t \in Tasks : IndexRead(t)
    \/ \E t \in Tasks, r \in SessionRuns : IndexWritten(t, r)
    \/ \E t \in Tasks, r \in SessionRuns : SizeWritten(t, r)

SessionSpec == Init /\ [][SessionNext]_vars

\* A capture that keeps polling while the browser logs requests and their
\* responses: overlapping ticks, still more log entries.
PollNext ==
    \/ SetDriver
    \/ starts = 0 /\ StartCapture
    \/ StartCaptureDone
    \/ \E h \in 1..MaxStarts : Tick(h)
    \/ \E t \in Tasks, r \in PollRuns : FetchDone(t, r)
    \/ \E t \in Tasks : FetchFail(t)
    \/ \E t \in Tasks, r \in PollRuns : RequestBodyWritten(t, r)
    \/ \E t \in Tasks, r \in PollRuns : RequestWritten(t, r)
    \/ \E t \in Tasks, o \in BodyOutcomes : BodyFetched(t, o)
    \/ \E t \in Tasks : ResponseBodyWritten(t)
    \/ \E t \in Tasks : ResponseWritten(t)
    \/ \E t \in Tasks, r \in PollRuns : RequestRewritten(t, r)
    \/ \E t \in Tasks : IndexRead(t)
    \/ \E t \in Tasks, r \in PollRuns : IndexWritten(t, r)

PollSpec == Init /\ [][PollNext]_vars

\* The logger as the browser tools drive it: start_browser and close_session,
\* one browser session after the other.
BrowserRuns == Runs(emitted, MaxBrowserEvents, EntryTypes)

BrowserNext ==
    \/ \E o \in BrowserOptions : StartBrowser(o)
    \/ StartCaptureDone
    \/ \E h \in 1..MaxStarts : Tick(h)
    \/ CloseSession
    \/ QuitDone
    \/ CleanupDone
    \/ \E t \in Tasks, r \in BrowserRuns : FetchDone(t, r)
    \/ \E t \in Tasks : FetchFail(t)
    \/ \E t \in Tasks : FetchAfterQuit(t)
    \/ \E t \in Tasks, r \in BrowserRuns : RequestBodyWritten(t, r)
    \/ \E t \in Tasks, r \in BrowserRuns : RequestWritten(t, r)
    \/ \E t \in Tasks, o \in BodyOutcomes : BodyFetched(t, o)
    \/ \E t \in Tasks : ResponseBodyWritten(t)
    \/ \E t \in Tasks : ResponseWritten(t)
    \/ \E t \in Tasks, r \in BrowserRuns : RequestRewritten(t, r)
    \/ \E t \in Tasks : IndexRead(t)
    \/ \E t \in Tasks, r \in BrowserRuns : IndexWritten(t, r)
    \/ \E t \in Tasks, r \in BrowserRuns : SizeWritten(t, r)

BrowserSpec == Init /\ [][BrowserNext]_vars

\* A capture whose ticks do not overlap (each call of captureLogs returns
\* before the timer fires again), over a longer log.
SerialRuns == Runs(emitted, MaxSerialEvents, ExchangeTypes)

SerialNext ==
    \/ SetDriver
    \/ starts = 0 /\ StartCapture
    \/ StartCaptureDone
    \/ \E h \in 1..MaxStarts : Quiet /\ Tick(h)
    \/ \E t \in Tasks, r \in SerialRuns : FetchDone(t, r)
    \/ \E t \in Tasks, r \in SerialRuns : RequestBodyWritten(t, r)
    \/ \E t \in Tasks, r \in SerialRuns : RequestWritten(t, r)
    \/ \E t \in Tasks, o \in BodyOutcomes : BodyFetched(t, o)
    \/ \E t \in Tasks : ResponseBodyWritten(t)
    \/ \E t \in Tasks : ResponseWritten(t)
    \/ \E t \in Tasks, r \in SerialRuns : RequestRewritten(t, r)
    \/ \E t \in Tasks : IndexRead(t)
    \/ \E t \in Tasks, r \in SerialRuns : IndexWritten(t, r)

SerialSpec == Init /\ [][SerialNext]_vars

\* One browser session with the faults of the file system, and the query
\* tools: one tick at a time (each finishes before the timer fires again),
\* one call of a query tool at a time.
ToolRuns == Runs(emitted, MaxToolEvents, ExchangeTypes)

ToolNext ==
    \/ \E o \in ChromeOptions :
          /\ sessions = <<>>
          /\ ShouldLogNetwork(o) => o.networkLogDir = ""
          /\ StartBrowser(o)
    \/ StartCaptureDone
    \/ \E h \in 1..MaxStarts : Quiet /\ Tick(h)
    \/ CloseSession
    \/ QuitDone
    \/ CleanupDone
    \/ CleanupFailed
    \/ \E t \in Tasks, r \in ToolRuns : FetchDone(t, r)
    \/ \E t \in Tasks : FetchAfterQuit(t)
    \/ \E t \in Tasks, r \in ToolRuns : RequestBodyWritten(t, r)
    \/ \E t \in Tasks, r \in ToolRuns : RequestWritten(t, r)
    \/ \E t \in Tasks, o \in BodyOutcomes : BodyFetched(t, o)
    \/ \E t \in Tasks : ResponseBodyWritten(t)
    \/ \E t \in Tasks : ResponseWritten(t)
    \/ \E t \in Tasks, r \in ToolRuns : RequestRewritten(t, r)
    \/ \E t \in Tasks : IndexRead(t)
    \/ \E t \in Tasks, r \in ToolRuns : IndexWritten(t, r)
    \/ \E p \in Patterns, u \in BOOLEAN, m \in SearchModes,
          mf \in MethodFilters, sf \in StatusFilters : SearchNetworkLogs(p, u, m, mf, sf)
    \/ \E ok \in BOOLEAN : SearchFileRead(ok)
    \/ \E u \in PageUrls : GetPageRequests(u)
    \/ ReplySent

ToolSpec == Init /\ [][ToolNext]_vars

\* A capture that is never stopped.  The browser logs a response after the
\* request it answers: the key of a response that is met belongs to a record,
\* to a request that a call is saving, or to a request earlier in the run.
AfterItsRequest(run) ==
    \A j \in DOMAIN run :
        run[j].kind = "resp" =>
            \/ run[j].key \in DOMAIN requestMap
            \/ \E t \in Tasks : /\ tasks[t].pc \in {"reqBodyWrite", "reqWrite"}
                                /\ tasks[t].cur.requestId = run[j].key
            \/ \E m \in 1..(j - 1) : run[m].kind = "req" /\ run[m].key = run[j].key

LiveRuns == {r \in Runs(emitted, MaxLiveEvents, ExchangeTypes) : AfterItsRequest(r)}

\* The I/O operation that call t of captureLogs awaits completes.
TaskStep(t) ==
    \/ \E r \in LiveRuns : FetchDone(t, r)
    \/ FetchFail(t)
    \/ \E r \in LiveRuns : RequestBodyWritten(t, r)
    \/ \E r \in LiveRuns : RequestWritten(t, r)
    \/ \E o \in BodyOutcomes : BodyFetched(t, o)
    \/ ResponseBodyWritten(t)
    \/ ResponseWritten(t)
    \/ \E r \in LiveRuns : RequestRewritten(t, r)
    \/ IndexRead(t)
    \/ \E r \in LiveRuns : IndexWritten(t, r)

\* The interval of startCapture elapses (setInterval, every 500 ms).
TimerFires == \E h \in 1..MaxStarts : Tick(h)

LiveNext ==
    \/ SetDriver
    \/ starts = 0 /\ StartCapture
    \/ StartCaptureDone
    \/ TimerFires
    \/ \E t \in Tasks : TaskStep(t)

\* The event loop runs every callback that is due: a timer that is live
\* fires again, and an I/O operation that is awaited completes.
LiveSpec ==
    /\ Init /\ [][LiveNext]_vars
    /\ WF_vars(StartCaptureDone)
    /\ WF_vars(TimerFires)
    /\ \A t \in Tasks : WF_vars(TaskStep(t))

\* The loop of searchInFiles over the lines of one file, by itself: any text
\* of a few lines is scanned for a pattern, with the literal matcher and
\* with the regular expression.
LinePool == {"GET /a", "get", "post"}
MatchPatterns == {"get", "GeT", "g.t", "os"}
ContextChoices == {0, 1, 2}

Texts == UNION {[1..n -> LinePool] : n \in 1..MaxLines}

MatchInit ==
    /\ Started
    /\ \E lines \in Texts, pattern \in MatchPatterns, c \in ContextChoices :
          probe = [pc |-> "text", lines |-> lines, pattern |-> pattern,
                   contextLines |-> c]

\* The lines are scanned with the matcher of the mode.
Scan(useRegex) ==
    /\ probe.pc = "text"
    /\ useRegex => ValidRegExp(probe.pattern)
    /\ probe' = [pc |-> "scanned", lines |-> probe.lines, pattern |-> probe.pattern,
                 contextLines |-> probe.contextLines, useRegex |-> useRegex,
                 matches |-> ScanLines(probe.lines, 1, Matcher(probe.pattern, useRegex),
                                       [type |-> "request-metadata", filepath |-> "",
                                        contextLines |-> probe.contextLines]).matches]
    /\ UNCHANGED <<loggerVars, rmErrors, search, reply, cdpLogger>>

MatchNext ==
    \/ Scan(FALSE)
    \/ Scan(TRUE)

MatchSpec == MatchInit /\ [][MatchNext]_vars

\* --------------------------------------------------------------- properties
\* The entries of index.json in directory dir; none when the file is absent
IndexOf(dir) ==
    IF Exists(files, IndexPath(dir)) THEN files[IndexPath(dir)].requests ELSE <<>>

\* The positions of the index, in the record's directory, that hold record r
EntriesFor(r) ==
    LET ix == IndexOf(r.requestFilepath.dir)
    IN {k \in DOMAIN ix : ix[k].uniqueId = r.uniqueId}

\* The calls that are saving a request that is not yet in the record list
Saving == {t \in Tasks : tasks[t].pc \in {"reqBodyWrite", "reqWrite"}}

KindsSeen(t) == [k \in DOMAIN tasks[t].seen |-> tasks[t].seen[k].kind]

\* C1: every request-sent entry the loop has met has exactly one record (or
\* is being saved), and every record whose request file is on disk has
\* exactly one entry in index.json, whether or not a response arrived.
C1_OneRecordOneIndexEntry ==
    /\ Len(requests) + Cardinality(Saving) = emitted["req"]
    /\ \A i \in DOMAIN requests :
          Exists(files, requests[i].requestFilepath)
              => Cardinality(EntriesFor(requests[i])) = 1

\* C2: once a request, its response and any later loading-finished entry are
\* processed, the record has its request and response fields, and its index
\* entry carries the record's final status and final size.
C2_IndexCarriesFinalStatusAndSize ==
    Quiet =>
      \A i \in DOMAIN requests :
        LET r == requests[i]
            ix == IndexOf(r.requestFilepath.dir)
        IN r.responseStatus # NoNum =>
             /\ r.url # NoStr /\ r.method # NoStr
             /\ r.responseHeaders # NoStr /\ r.type # NoStr
             /\ \A k \in EntriesFor(r) :
                   ix[k].status = r.responseStatus /\ ix[k].size = r.size

\* The step in which call t fetched a batch that holds nothing but
\* response-received entries for keys that no request had registered
UnknownResponsesFetched(t) ==
    /\ tasks[t].pc = "fetch"
    /\ tasks'[t].seen # <<>>
    /\ \A k \in DOMAIN tasks'[t].seen :
          /\ tasks'[t].seen[k].kind = "resp"
          /\ tasks'[t].seen[k].key \notin DOMAIN requestMap

NewSessionStarts ==
    /\ call.op = "mkdir"
    /\ starts >= 1
    /\ ~isCapturing
    /\ isCapturing'

\* C4: when startCapture follows stopCapture, nothing of the previous
\* session is visible in the new one: the record list and the correlation
\* map are empty and the log directory is not one that was in use.
C4_NewSessionIsFresh ==
    [][NewSessionStarts =>
         /\ requests' = <<>>
         /\ requestMap' = <<>>
         /\ logDir' \notin dirs]_vars

\* C5: entries that are not valid JSON or not network events make no record
\* and end no call; every request-sent entry the loop has met, before or
\* after such an entry, has its record (or is being saved).
C5_BadEntriesAreSkipped ==
    /\ Len(requests) + Cardinality(Saving) = emitted["req"]
    /\ \A t \in Tasks :
          (InFlight(t) /\ tasks[t].pc # "fetch") =>
              tasks[t].seen[Len(tasks[t].seen)].kind \in {"req", "resp", "fin"}

\* A call has returned from a batch of a request, a malformed entry and a
\* second request, and both records exist.
C5_MalformedBetweenRequests ==
    \E t \in Tasks :
        /\ tasks[t].pc = "idle"
        /\ KindsSeen(t) = <<"req", "malformed", "req">>
        /\ Len(requests) = 2

\* C6: as long as no driver is bound, startCapture leaves everything as it
\* was: not capturing, no timer, no directory, no record, no map entry, and
\* the call has not gone on to create the directory.
C6_StartWithoutDriverChangesNothing ==
    driver = "unset" =>
        /\ ~isCapturing
        /\ timers = {} /\ captureInterval = 0 /\ starts = 0
        /\ dirs = {}
        /\ requests = <<>> /\ requestMap = <<>>
        /\ call.op # "mkdir"
        /\ raised \in {"", "WebDriver not set"}

\* startCapture has failed for want of a driver.
C6_StartRejected ==
    /\ driver = "unset"
    /\ raised = "WebDriver not set"
    /\ call = NoCall

\* C7: once the calls have returned, every record whose response was saved
\* (whose index update therefore completed) has its entry in index.json,
\* however the reads and writes of concurrent updates interleaved.
C7_NoIndexEntryLost ==
    Quiet =>
      \A i \in DOMAIN requests :
          requests[i].responseFilepath # NoPath => EntriesFor(requests[i]) # {}

\* C8: index.json never holds two entries with the same uniqueId.
C8_OneIndexEntryPerUniqueId ==
    \A d \in Dirs :
        \A j, k \in DOMAIN IndexOf(d) :
            IndexOf(d)[j].uniqueId = IndexOf(d)[k].uniqueId => j = k

\* Two responses for the same record have been processed, and the index
\* holds its one entry with the status of the second.
C8_SecondResponseMerged ==
    /\ Quiet
    /\ Len(requests) = 1
    /\ emitted["resp"] = 2
    /\ Len(IndexOf(TsDir)) = 1
    /\ IndexOf(TsDir)[1].status = Pick(StatusPool, 2)
    /\ requests[1].responseStatus = Pick(StatusPool, 2)

\* The file names of a record carry its uniqueId.
NamedFromUniqueId(r) ==
    /\ r.requestFilepath.kind = "request" /\ r.requestFilepath.id = r.uniqueId
    /\ r.responseFilepath # NoPath =>
          r.responseFilepath.kind = "response" /\ r.responseFilepath.id = r.uniqueId

\* C9: a record keeps the uniqueId it was given when its request was
\* processed, no two records share one, and the request file and the
\* response file of a record are named from it.
C9_UniqueIdStable ==
    [][/\ \A i \in DOMAIN requests :
            i \in DOMAIN requests' /\ requests'[i].uniqueId = requests[i].uniqueId
       /\ \A i, j \in DOMAIN requests' :
            requests'[i].uniqueId = requests'[j].uniqueId => i = j
       /\ \A i \in DOMAIN requests' : NamedFromUniqueId(requests'[i])]_vars

\* A record has had two responses; its files carry the uniqueId it was given.
C9_RepeatedResponses ==
    /\ Len(requests) = 1
    /\ emitted["resp"] = 2
    /\ requests[1].uniqueId = GenerateUniqueId(0)
    /\ requests[1].responseStatus = Pick(StatusPool, 2)
    /\ requests[1].responseFilepath = Path(TsDir, "response", requests[1].uniqueId)
    /\ Quiet

\* C10: stopCapture lets a tick that is in flight finish before its final
\* drain processes anything, and goes on (to purge the directory, or to
\* return) only when no tick is in flight.
C10_StopWaitsForTick ==
    LET tickInFlight == \E t \in TickTasks : InFlight(t)
    IN /\ tasks[DrainTask].pc \notin {"idle", "fetch"} => ~tickInFlight
       /\ call.op = "rm" => ~tickInFlight
       /\ (~isCapturing /\ call = NoCall) => ~tickInFlight

\* C11: at most one call of captureLogs is in progress at any time: no tick
\* fetches or processes while the asynchronous work of an earlier call is
\* pending.
C11_OneCaptureAtATime ==
    Cardinality({t \in Tasks : InFlight(t)}) <= 1

\* The step in which the fetch of call t fails
FetchFails(t) ==
    /\ tasks[t].pc = "fetch"
    /\ tasks'[t] # tasks[t]
    /\ fetchErrors' = fetchErrors + 1

\* C12: a fetch that fails is caught: the call returns and changes no record,
\* map entry or file, the capture flag and the timer stay as they were, and
\* the entries that later fetches return are processed as ever (every
\* request-sent entry met has its record or is being saved).
C12_FetchFailureSkipsTheTick ==
    [][/\ \A t \in Tasks :
            FetchFails(t) =>
               /\ UNCHANGED <<requests, requestMap, files, dirs, isCapturing,
                              captureInterval, timers, raised>>
               /\ tasks'[t].pc = "idle"
       /\ fetchErrors' > 0 =>
             Len(requests') + Cardinality(Saving') = emitted'["req"]]_vars

\* A tick's fetch has failed, the capture is still on with its timer, and a
\* fetch that succeeded has since brought a request whose record and file exist.
C12_TickAfterFailedFetch ==
    /\ fetchErrors = 1
    /\ isCapturing /\ captureInterval \in timers
    /\ Quiet
    /\ Len(requests) = 1
    /\ Exists(files, requests[1].requestFilepath)

\* C13: when stopCapture has returned the capture flag is off and the timer
\* handle is cleared (the timer it named is cancelled), and an interval
\* callback starts a captureLogs call only while the flag is on: with the
\* flag off it fetches nothing and changes nothing.
C13_StoppedCaptureStaysIdle ==
    [][/\ (call.op \in {"drain", "rm"} /\ call' = NoCall) =>
             (~isCapturing' /\ captureInterval' = 0)
       /\ (isCapturing /\ ~isCapturing') =>
             (captureInterval' = 0 /\ captureInterval \notin timers')
       /\ \A t \in TickTasks : (Free(t) /\ ~Free(t)') => isCapturing]_vars

\* stopCapture has returned and a timer is still live (one that an earlier
\* startCapture left behind): its callback runs with the flag off.
C13_CallbackWhileStopped ==
    /\ ~isCapturing
    /\ captureInterval = 0
    /\ call = NoCall
    /\ timers # {}
    /\ \A t \in Tasks : Free(t)

\* The files that exist in directory dir
FilesIn(dir) == {p \in DOMAIN files : p.dir = dir}

\* The step in which stopCapture returns
StopCaptureReturns == call.op \in {"drain", "rm"} /\ call' = NoCall

\* C14: stopCapture called to clean up (its default) returns only when the
\* log directory and its files are gone; called with cleanup = false it
\* leaves the directory and every file in place.  Nothing but that purge
\* removes a file or a directory.  close_session asks for the purge unless
\* the session was started with preserveNetworkLogs, so that when it returns
\* the directory of a preserved session still exists and that of any other
\* session does not.
C14_PurgeUnlessPreserved ==
    [][/\ call.op # "rm" => (dirs \subseteq dirs' /\ DOMAIN files \subseteq DOMAIN files')
       /\ (call.op = "drain" /\ call.cleanup) => call' # NoCall
       /\ (StopCaptureReturns /\ call.cleanup) => (logDir \notin dirs' /\ FilesIn(logDir)' = {})
       /\ (StopCaptureReturns /\ ~call.cleanup) => (dirs' = dirs /\ DOMAIN files \subseteq DOMAIN files')
       /\ (call.op = "quit" /\ call'.op # "quit") =>
              call'.cleanup = ~sessions[CurrentSession].preserveNetworkLogs
       /\ (StopCaptureReturns /\ sessions # <<>>) =>
              (logDir \in dirs' <=> sessions[Len(sessions)].preserveNetworkLogs)]_vars

\* Two sessions have been closed.  The first, not preserved, captured a
\* request into a directory that is gone with its files; the second,
\* preserved, captured one into a directory that still holds its file.
C14_PurgedAndPreserved ==
    /\ Len(sessions) = 2 /\ CurrentSession = 0 /\ call = NoCall
    /\ ~sessions[1].preserveNetworkLogs /\ sessions[2].preserveNetworkLogs
    /\ sessions[1].dir # sessions[2].dir
    /\ Len(requests) = 2
    /\ requests[1].requestFilepath.dir = sessions[1].dir
    /\ sessions[1].dir \notin dirs /\ FilesIn(sessions[1].dir) = {}
    /\ sessions[2].dir \in dirs
    /\ Exists(files, requests[2].requestFilepath)

\* C15: a session that is launched without a directory of its own captures
\* into a directory that no earlier session has used: neither the directory
\* of an earlier session launched without one, nor the directory that was
\* given for an earlier session.
C15_OwnDirectoryPerSession ==
    [][(/\ Len(sessions') > Len(sessions)
        /\ sessions'[Len(sessions')].networkLogDir = "") =>
           \A k \in DOMAIN sessions : sessions[k].dir # logDir']_vars

\* The step in which call t, not finishing a request-sent entry in the same
\* step, takes up a response-received entry for a registered key
ResponseTakenUp(t) ==
    /\ tasks[t].pc \in {"fetch", "reqRewrite", "idxWrite", "finWrite"}
    /\ tasks'[t].pc = "bodyFetch"

BodilessResponseDone(t) ==
    /\ tasks[t].pc = "idxWrite" /\ tasks'[t].pc # "idxWrite"
    /\ tasks[t].body = NoStr
    /\ \A u \in Tasks \ {t} : Free(u)

\* C17: when the body fetch of a response fails the response is processed to
\* the end (response file, request file and index entry are written) and the
\* record then has no response body and no reference to a response-body
\* file, also when an earlier response for the key had a body.
C17_FailedBodyFetchLeavesNoBody ==
    [][\A t \in Tasks :
         BodilessResponseDone(t) =>
            LET r == requests'[tasks[t].rec]
            IN /\ Exists(files', tasks[t].spath)
               /\ Exists(files', tasks[t].rpath)
               /\ Exists(files', IndexPath(logDir))
               /\ FindIndex(files'[IndexPath(logDir)].requests, r.uniqueId) > 0
               /\ r.responseBody = NoStr
               /\ r.responseBodyFilepath = NoName]_vars

\* The entries the loop of call t meets in a step
NewSeen(t) ==
    IF tasks[t].pc = "fetch" THEN tasks'[t].seen
    ELSE SubSeq(tasks'[t].seen, Len(tasks[t].seen) + 1, Len(tasks'[t].seen))

\* The encodedDataLength of the j-th of these entries, a loading-finished one
FinSize(t, j) ==
    Pick(SizePool, emitted["fin"]
                     + Cardinality({m \in 1..j : NewSeen(t)[m].kind = "fin"}))

\* The j-th of these entries is the last loading-finished entry for its key.
LastFin(t, j) ==
    /\ NewSeen(t)[j].kind = "fin"
    /\ \A m \in (j + 1)..Len(NewSeen(t)) :
          ~(NewSeen(t)[m].kind = "fin" /\ NewSeen(t)[m].key = NewSeen(t)[j].key)

\* C18: a loading-finished entry for a registered key gives the record the
\* size it reports, whatever number that is, and the request file that is
\* then written carries that size; loading-finished entries for keys that
\* are not registered change no record, no map entry and no file.
C18_FinishedSetsSize ==
    [][\A t \in Tasks :
         /\ \A j \in DOMAIN NewSeen(t) :
               (LastFin(t, j) /\ NewSeen(t)[j].key \in DOMAIN requestMap') =>
                   requests'[requestMap'[NewSeen(t)[j].key].req].size = FinSize(t, j)
         /\ (tasks[t].pc = "finWrite" /\ tasks'[t] # tasks[t]
               /\ CanWrite(dirs, tasks[t].path)) =>
                   files'[tasks[t].path].size = Head(tasks[t].rest).size
         /\ (/\ tasks[t].pc = "fetch"
             /\ NewSeen(t) # <<>>
             /\ \A j \in DOMAIN NewSeen(t) :
                   /\ NewSeen(t)[j].kind = "fin"
                   /\ NewSeen(t)[j].key \notin DOMAIN requestMap) =>
                   UNCHANGED <<requests, requestMap, files>>]_vars

\* The step in which a write of saveRequest, made by call t, fails
RequestWriteFails(t) ==
    /\ tasks[t].pc \in {"reqBodyWrite", "reqWrite"}
    /\ tasks'[t] # tasks[t]
    /\ ~CanWrite(dirs, tasks[t].path)

\* C19: when a write of saveRequest fails nothing is thrown: the record is
\* appended to the record list and registered under its key, no file
\* appears, the loop goes on (every request-sent entry met has its record or
\* is being saved), and a later response for the key still updates the record.
C19_RecordSurvivesFailedWrite ==
    [][\A t \in Tasks :
         /\ RequestWriteFails(t) =>
               LET n == Len(requests) + 1
                   r == tasks[t].cur
               IN /\ Len(requests') = n
                  /\ requests'[n].uniqueId = r.uniqueId
                  /\ requests'[n].url = r.url
                  /\ requests'[n].requestFilepath = tasks[t].rpath
                  /\ r.requestId \in DOMAIN requestMap'
                  /\ requestMap'[r.requestId].req = n
                  /\ files' = files
                  /\ raised' = raised
                  /\ Len(requests') + Cardinality(Saving') = emitted'["req"]
         /\ (/\ ResponseTakenUp(t)
             /\ ~Exists(files, requests[tasks'[t].rec].requestFilepath)) =>
               requests'[tasks'[t].rec].responseStatus = Head(tasks'[t].rest).status]_vars

\* A record whose request file could not be written is in the record list
\* and in the map, and a response that came later has given it its status.
C19_UnsavedRecordUpdated ==
    /\ Quiet
    /\ Len(requests) = 1
    /\ FirstKey \in DOMAIN requestMap
    /\ ~Exists(files, requests[1].requestFilepath)
    /\ requests[1].responseStatus = Pick(StatusPool, 1)
    /\ raised = ""

\* C20: updateIndex raises nothing when index.json is missing or what it
\* reads does not parse: it goes on from the empty index, so that the index
\* it writes holds just the entry of the record; in every case the index it
\* writes holds that entry.
C20_UnreadableIndexStartsFresh ==
    [][\A t \in Tasks :
         /\ (tasks[t].pc = "idxRead" /\ tasks'[t] # tasks[t]) =>
               LET r == requests[tasks[t].rec]
                   ix == tasks'[t].buf.requests
               IN /\ tasks'[t].pc = "idxWrite"
                  /\ raised' = raised
                  /\ requests' = requests
                  /\ ~Exists(files, tasks[t].path) => tasks'[t].read \in {"ENOENT", "torn"}
                  /\ tasks'[t].read \in {"ENOENT", "torn"} =>
                        /\ Len(ix) = 1
                        /\ ix[1].uniqueId = r.uniqueId
                        /\ ix[1].url = r.url
                        /\ ix[1].status = r.responseStatus
                  /\ FindIndex(ix, r.uniqueId) > 0
         /\ (tasks[t].pc = "idxWrite" /\ tasks'[t] # tasks[t]
               /\ CanWrite(dirs, tasks[t].path)) =>
               files'[tasks[t].path] = tasks[t].buf]_vars

\* A call has read index.json while another call was writing it, got
\* something that does not parse, and is writing an index of one entry over
\* a file that exists.
C20_TornIndexRead ==
    \E t \in Tasks :
        /\ tasks[t].pc = "idxWrite"
        /\ tasks[t].read = "torn"
        /\ Exists(files, tasks[t].path)
        /\ Len(tasks[t].buf.requests) = 1

\* The step in which the fs.rm of cleanupLogs fails
CleanupFails == call.op = "rm" /\ rmErrors' = rmErrors + 1

\* C21: when fs.rm fails during cleanup nothing is thrown: stopCapture
\* returns, the capture flag is off, the timer is cancelled and its handle
\* cleared, and the directory and its files are as they were.
C21_CleanupFailureIsNotThrown ==
    [][CleanupFails =>
         /\ call' = NoCall
         /\ raised' = ""
         /\ ~isCapturing'
         /\ captureInterval' = 0 /\ timers' = {}
         /\ dirs' = dirs /\ files' = files]_vars

\* close_session has returned from a session that was not to be preserved,
\* the purge of its directory failed, and the directory still holds the
\* request file of the session's record.
C21_SessionClosedAfterFailedPurge ==
    /\ rmErrors = 1
    /\ call = NoCall /\ CurrentSession = 0
    /\ ~sessions[Len(sessions)].preserveNetworkLogs
    /\ ~isCapturing /\ timers = {}
    /\ logDir \in dirs
    /\ Len(requests) >= 1
    /\ Exists(files, requests[Len(requests)].requestFilepath)

\* The entries of an index other than the one of uniqueId uid, in order
OtherEntries(ix, uid) == SelectSeq(ix, LAMBDA e : e.uniqueId # uid)

\* The step in which call t writes index.json
IndexWrittenBy(t) ==
    /\ tasks[t].pc = "idxWrite"
    /\ tasks'[t] # tasks[t]
    /\ CanWrite(dirs, tasks[t].path)

MalformedSearch(query) ==
    /\ query.tool = "search_network_logs"
    /\ query.useRegex
    /\ ~ValidRegExp(query.pattern)

\* C23: a search of the files in regex mode with a malformed pattern reads
\* no file, whatever records exist: no searchInFiles call with such a pattern
\* ever awaits a read, and the tool replies with an error message, not with
\* results.
C23_MalformedPatternReadsNoFile ==
    /\ search.pc = "read" => ~(search.useRegex /\ ~ValidRegExp(search.pattern))
    /\ (reply # NoReply /\ MalformedSearch(reply.query)
                        /\ reply.query.searchIn = "files") =>
          /\ search = NoSearch
          /\ reply.kind = "text"
          /\ reply.text \in {FilesErrorText, NoSessionText}

\* The files of a record with its response are on disk, and a search of the
\* files for the pattern "(" in regex mode has been answered with the error.
C23_MalformedPatternRejected ==
    /\ reply # NoReply
    /\ reply.query.tool = "search_network_logs"
    /\ reply.query.pattern = "(" /\ reply.query.useRegex
    /\ reply.query.searchIn = "files"
    /\ reply.text = FilesErrorText
    /\ Len(requests) >= 1
    /\ Exists(files, requests[1].requestFilepath)
    /\ requests[1].responseFilepath # NoPath
    /\ Exists(files, requests[1].responseFilepath)

\* C24: search_network_logs, called in a browser session in regex mode with
\* a pattern that does not compile, replies with the invalid-pattern error in
\* every search mode and whatever the record list holds, also when it is
\* empty: never with a message that there are no requests or no matches, and
\* never with results.
C24_MalformedPatternAlwaysRejected ==
    (/\ reply # NoReply
     /\ MalformedSearch(reply.query)
     /\ ~(reply.kind = "text" /\ reply.text = NoSessionText)) =>
        /\ reply.kind = "text"
        /\ reply.text \in {FilesErrorText, MemoryErrorText}

\* The text holds the pattern, letter for letter when the case of the
\* letters is ignored.
ContainsIgnoringCase(text, pattern) ==
    \E k \in 0..(Len(text) - Len(pattern)) :
        \A j \in 1..Len(pattern) :
            LowerChar(CharAt(text, k + j)) = LowerChar(CharAt(pattern, j))

\* The numbers of the lines that hold the pattern
MatchingLines(lines, pattern) ==
    {i \in 1..Len(lines) : ContainsIgnoringCase(lines[i], pattern)}

\* The line numbers the entries report
ReportedLines(matches) == {matches[k].lineNumber : k \in DOMAIN matches}

\* C25: in literal mode the lines reported for a file are exactly the lines
\* that hold the pattern when case is ignored: one entry for each such line,
\* in the order of the lines, with its number (from 1) and its text, and no
\* entry for a line that does not hold it.
C25_LiteralFindsExactlyTheMatchingLines ==
    (probe.pc = "scanned" /\ ~probe.useRegex) =>
        /\ ReportedLines(probe.matches) = MatchingLines(probe.lines, probe.pattern)
        /\ Len(probe.matches) = Cardinality(MatchingLines(probe.lines, probe.pattern))
        /\ \A k \in DOMAIN probe.matches :
              /\ probe.matches[k].matchedLine = probe.lines[probe.matches[k].lineNumber]
              /\ k > 1 => probe.matches[k - 1].lineNumber < probe.matches[k].lineNumber

\* A text of three lines has been scanned for "GeT" in literal mode: the
\* first line (in capitals) and the third are reported, the second is not.
C25_MixedCaseLinesFound ==
    /\ probe.pc = "scanned" /\ ~probe.useRegex
    /\ probe.pattern = "GeT"
    /\ probe.lines = <<"GET /a", "post", "get">>
    /\ ReportedLines(probe.matches) = {1, 3}
    /\ probe.matches[1].matchedLine = "GET /a"

\* C26: in regex mode every line that holds a match of the pattern is
\* reported, whatever lines were tested before it: for a pattern without
\* metacharacters the lines reported are those literal mode reports, also
\* when lines that match follow one another.
C26_RegexFindsWhatLiteralFinds ==
    (probe.pc = "scanned" /\ probe.useRegex /\ ~Includes(probe.pattern, ".")) =>
        /\ ReportedLines(probe.matches) = MatchingLines(probe.lines, probe.pattern)
        /\ ReportedLines(probe.matches) =
              ReportedLines(ScanLines(probe.lines, 1, Matcher(probe.pattern, FALSE),
                                      [type |-> "request-metadata", filepath |-> "",
                                       contextLines |-> probe.contextLines]).matches)

\* The text holds the substring, character for character.
Contains(text, sub) ==
    \E k \in 0..(Len(text) - Len(sub)) :
        \A j \in 1..Len(sub) : CharAt(text, k + j) = CharAt(sub, j)

\* The positions, in order, of the records whose url holds the substring
RECURSIVE RecordsWithUrl(_, _, _)
RecordsWithUrl(reqs, k, sub) ==
    IF k > Len(reqs) THEN <<>>
    ELSE (IF Contains(reqs[k].url, sub) THEN <<k>> ELSE <<>>)
         \o RecordsWithUrl(reqs, k + 1, sub)

\* get_page_requests answers a call made while a browser session is open
AnsweredPageRequests ==
    /\ reply = NoReply
    /\ reply' # NoReply
    /\ reply'.query.tool = "get_page_requests"
    /\ CurrentSession # 0

RecordsAtSearchStart == {requests[j].uniqueId : j \in 1..search.size}

\* C28: a search in the files reports on the records that were in the list
\* when it started, and on no record the capture has appended while the
\* search was waiting for a file.
C28_SearchAnswersOverSnapshot ==
    reply.kind = "files" =>
        \A k \in DOMAIN reply.results : reply.results[k].uniqueId \in RecordsAtSearchStart

\* A read of the search in the files fails in this step
SearchReadFails ==
    /\ search.pc = "read"
    /\ search' # search
    /\ search'.failed > search.failed

\* C29: a file the search cannot read is skipped.  The search goes on to
\* the next file or replies with its results, never with an error; what the
\* record's other files and the other records matched is kept; and when the
\* record is through it is reported if, and only if, a file of it that
\* could be read held a match.
C29_UnreadableFileIsSkipped ==
    [][SearchReadFails =>
        LET through == search'.i > search.i IN
        /\ search'.pc \in {"read", "idle"}
        /\ search'.lastIndex = search.lastIndex
        /\ IF through /\ search.matches # <<>>
           THEN search'.results =
                    Append(search.results, SearchResult(requests[search.i], search.matches))
           ELSE search'.results = search.results
        /\ ~through => search'.matches = search.matches
        /\ IF search'.pc = "idle"
           THEN reply' = SearchFilesReply(search.query, search')
           ELSE reply' = NoReply]_vars

\* The only record has a request file and a response file; one of the two
\* reads of the search has failed, and the reply reports the record with the
\* match of the other file.
C29_MatchOfTheOtherFileReturned ==
    /\ Len(requests) = 1
    /\ reply.kind = "files"
    /\ search.failed = 1
    /\ search.reads >= 2
    /\ reply.results[1].uniqueId = requests[1].uniqueId

\* The process has started a browser, and no browser with the capture
\* switched on.
OnlyStartedWithoutLogging ==
    /\ sessions # <<>>
    /\ \A k \in DOMAIN sessions : ~sessions[k].logNetworkRequests

C31_OneLoggerPerProcess ==
    [][cdpLogger' # cdpLogger => (cdpLogger = 0 /\ cdpLogger' = 1)]_vars

\* start_browser, get_page_requests and close_session have called the
\* accessor, in this order: the tool has reported the record the capture of
\* the session made, and the session is closed.
C31_ThreeCallersOneLogger ==
    /\ cdpLogger = 1
    /\ sessions # <<>> /\ ~sessions[1].open
    /\ reply.kind = "summary"
    /\ requests # <<>>
    /\ reply.requests[1].url = requests[1].url

\* The file was written when the reference to it was made: while the
\* directory of the capture stays, the file is there.
Written(p) == p # NoPath => Exists(files, p)

\* C32: the steps on one record are ordered.  The request file is written
\* before the record is in the list and in the map; the response file is
\* written before the record and the rewritten request file refer to it and
\* before the index entry that names both files is written.  In a capture
\* whose directory is not purged every file that is referred to is there.
C32_FilesWrittenBeforeReferredTo ==
    /\ \A k \in DOMAIN requests :
          /\ Exists(files, requests[k].requestFilepath)
          /\ Written(requests[k].responseFilepath)
    /\ \A key \in DOMAIN requestMap : Exists(files, requestMap[key].filepath)
    /\ \A q \in DOMAIN files :
          q.kind = "request" => Written(files[q].responseFilepath)
    /\ \A k \in DOMAIN IndexOf(logDir) :
          /\ Exists(files, IndexOf(logDir)[k].requestFilepath)
          /\ Written(IndexOf(logDir)[k].responseFilepath)

\* The index holds an entry that names the request file and the response
\* file of a record, and the request file names the response file.
C32_IndexEntryNamesBothFiles ==
    /\ Len(IndexOf(logDir)) >= 1
    /\ IndexOf(logDir)[1].responseFilepath # NoPath
    /\ IndexOf(logDir)[1].requestFilepath # NoPath
    /\ files[IndexOf(logDir)[1].requestFilepath].responseFilepath
          = IndexOf(logDir)[1].responseFilepath

\* The position of the record that was registered last under the key, 0 if
\* there is none
LatestFor(reqs, key) ==
    LET ks == {k \in DOMAIN reqs : reqs[k].requestId = key}
    IN IF ks = {} THEN 0 ELSE CHOOSE k \in ks : \A m \in ks : m <= k

\* The call is handling a response-received or loading-finished entry.
Updating(task) ==
    task.pc \in {"bodyFetch", "respBodyWrite", "respWrite", "reqRewrite",
                 "idxRead", "idxWrite", "finWrite"}

C34_FinalDrainReachesTheBrowser ==
    tasks[DrainTask].pc = "fetch" => driver = "alive"

\* The first and the last line (from 1) of the context of line i, in a text
\* of L lines with N lines of context
ContextFirst(i, N) == IF i - N > 1 THEN i - N ELSE 1
ContextLast(i, N, L) == IF i + N < L THEN i + N ELSE L

\* The lines of a text, cut at its newlines
RECURSIVE LinesFrom(_, _, _)
LinesFrom(text, from, at) ==
    IF at > Len(text) THEN <<SubSeq(text, from, Len(text))>>
    ELSE IF SubSeq(text, at, at) = "\n"
         THEN <<SubSeq(text, from, at - 1)>> \o LinesFrom(text, at + 1, at + 1)
         ELSE LinesFrom(text, from, at + 1)

\* C35: the context of a match at line i (from 1) of a text of L lines, with
\* N lines of context, is made of the lines max(1, i - N) .. min(L, i + N) in
\* their order: between 1 and 2N + 1 lines, all of them lines of the text,
\* the matched line among them, each after its own number.
C35_ContextIsTheWindowAroundTheLine ==
    probe.pc = "scanned" =>
        \A k \in DOMAIN probe.matches :
            LET i == probe.matches[k].lineNumber
                N == probe.contextLines
                lo == ContextFirst(i, N)
                hi == ContextLast(i, N, Len(probe.lines))
                block == LinesFrom(probe.matches[k].context, 1, 1)
            IN /\ Len(block) = hi - lo + 1
               /\ Len(block) >= 1 /\ Len(block) <= 2 * N + 1
               /\ lo >= 1 /\ hi <= Len(probe.lines) /\ lo <= i /\ i <= hi
               /\ \A j \in 1..Len(block) :
                     block[j] = ToString(lo + j - 1) \o ": " \o probe.lines[lo + j - 1]
               /\ block[i - lo + 1] = ToString(i) \o ": " \o probe.matches[k].matchedLine

\* With one line of context, the matches at the first and at the last of
\* three lines have windows of two lines, cut at the ends of the text.
C35_WindowsCutAtBothEnds ==
    /\ probe.pc = "scanned" /\ ~probe.useRegex
    /\ probe.lines = <<"get", "post", "get">>
    /\ probe.pattern = "get"
    /\ probe.contextLines = 1
    /\ Len(probe.matches) = 2
    /\ probe.matches[1].context = "1: get\n2: post"
    /\ probe.matches[2].context = "2: post\n3: get"

\* A file search has read its files and found matches; its reply is due
FileSearchReplied ==
    /\ reply # NoReply
    /\ reply.query.tool = "search_network_logs"
    /\ search # NoSearch
    /\ search.results # <<>>

C37_AtMostOneTimer == Cardinality(timers) <= 1

\* stopCapture has returned and startCapture has not been called since
StoppedAndReturned == starts > 0 /\ ~isCapturing /\ call = NoCall

\* C38: from the return of stopCapture to the next startCapture the record
\* list, the correlation map and the files stay as they are.
C38_QuiescentAfterStop ==
    [][StoppedAndReturned =>
          (requests' = requests /\ requestMap' = requestMap /\ files' = files)]_vars

\* The write that task t is waiting for fails in this step
WriteFails(t, pc) ==
    /\ tasks[t].pc = pc
    /\ tasks'[t] # tasks[t]
    /\ ~CanWrite(dirs, tasks[t].path)

\* The record task t is handling has its response fields
ResponseFieldsSet(t) ==
    /\ tasks[t].rec \in DOMAIN requests'
    /\ requests'[tasks[t].rec].responseStatus = Head(tasks[t].rest).status

\* C39: when the write of the response file or the rewrite of the request
\* file fails, the record has its response fields and the handling goes on
\* with the next step for the same record: the rewrite of the request file
\* after the response file, the index upsert after the rewrite.
C39_FailedWriteSkipsNothing ==
    [][\A t \in Tasks :
          /\ WriteFails(t, "respWrite") =>
                /\ ResponseFieldsSet(t)
                /\ tasks'[t].pc = "reqRewrite" /\ tasks'[t].rec = tasks[t].rec
          /\ WriteFails(t, "reqRewrite") =>
                /\ ResponseFieldsSet(t)
                /\ tasks'[t].pc = "idxRead" /\ tasks'[t].rec = tasks[t].rec]_vars

\* A call of captureLogs has met a request of the key
RequestMet(key) ==
    \E t \in Tasks : \E p \in DOMAIN tasks[t].seen :
        tasks[t].seen[p] = [kind |-> "req", key |-> key]

\* A call of captureLogs has met a response of the key
ResponseMet(key) ==
    \E t \in Tasks : \E p \in DOMAIN tasks[t].seen :
        tasks[t].seen[p] = [kind |-> "resp", key |-> key]

\* A record of the key is in the list / has the fields of a response
Recorded(key) == \E k \in DOMAIN requests : requests[k].requestId = key
Attached(key) ==
    \E k \in DOMAIN requests :
        requests[k].requestId = key /\ requests[k].responseStatus # NoNum

\* C40: while capture runs, with timers that fire and I/O that completes, a
\* request that a call has met is eventually a record, and a response that a
\* call has met (the browser logs it after its request) is eventually
\* attached to a record of its key.
C40_EveryEntryEventuallyTakesEffect ==
    \A key \in Keys : /\ RequestMet(key) ~> Recorded(key)
                      /\ ResponseMet(key) ~> Attached(key)

====
